---------------------------- MODULE Spec2Model ----------------------------
(***************************************************************************)
(* A model of the multi-agent investment analysis engine:                  *)
(*   - BaseAgent.analyze, the chunk / map / reduce workflow of one agent   *)
(*     run and its guardrails (src/src/agents/base_agent.py);              *)
(*   - the orchestrators' fan-out of category runs and the request scope   *)
(*     (src/src/core/multi_agent_orchestrator.py and                       *)
(*     src/src/core/enhanced_multi_agent_orchestrator.py);                 *)
(*   - file processing and categorisation                                  *)
(*     (src/src/utils/file_processor.py);                                  *)
(*   - the keyword scoring of the aggregator                               *)
(*     (src/src/agents/enhanced_aggregator_agent.py).                      *)
(* Texts whose characters matter (file names, narratives) are strings;     *)
(* texts of which only the length matters are lengths.  Times are seconds. *)
(* Confidence is kept as an integer number of 1/ConfScale units, so that   *)
(* the arithmetic is exact.                                                *)
(***************************************************************************)
EXTENDS Integers, Sequences, FiniteSets, TLC

VARIABLES
    \* ---- one BaseAgent.analyze() invocation
    content,      \* the content argument: [len, blank]
    pc,           \* position of the invocation in analyze / the workflow
    state,        \* the AgentState of the invocation
    pending,      \* _summarize_chunk calls of the gather still in flight
    map_done,     \* summaries the gather has collected so far
    map_stubs,    \* ... of which are "Error..." stub strings
    summaries,    \* the gather's result list by position (short runs)
    reduce_inflight, \* TRUE while the reduce inference call is awaited
    llm_calls,    \* inference calls issued: [map, reduce]
    cancelled,    \* inference calls cancelled by the timeout
    result,       \* what analyze() returned (NoResult before)
    clock,        \* seconds since analyze() was called
    \* ---- one orchestration request
    orch,         \* which orchestrator serves the request
    rpc,          \* position of the request
    categorized,  \* category -> number of documents to analyse
    launched,     \* the categories of agent_tasks, in launch order
    run,          \* category -> the state of its _run_agent_analysis task
    valid_results, \* the orchestrator's result list after the gather
    now,          \* seconds since the request started
    launch_time,  \* when the category runs were launched
    agg_time,     \* when the aggregator's analyze() was called
    response,     \* what analyze_files returned
    report,       \* what the /analyze endpoint returned
    company_info, \* what _llm_company_extraction returned, and the search key
    overtaken,    \* a category run finished before one launched earlier
    \* ---- file processing
    files,        \* the file names of the uploaded files, in upload order
    processed,    \* results of the gather over _process_single_file
    cat_lists,    \* `categorized`: category -> sequence of file indices
    fpc,          \* position of _process_and_categorize_files
    \* ---- scoring
    agent_results, \* the argument of aggregate_analyses
    synthesis,    \* what the aggregator's self.analyze returned
    narrative,    \* the aggregation result's analysis text
    aggregation,  \* what aggregate_analyses returned
    scores,       \* the scores record (NoScores before)
    \* ---- the question workflow of one aggregation
    qpc,          \* position in generate_questions_from_analyses
    qstate,       \* the AgentState of the question workflow
    q_inflight,   \* the node whose inference call is awaited ("" if none)
    q_calls,      \* the nodes that issued an inference call, in call order
    questions_result, \* what generate_questions_from_analyses returned
    \* ---- the web_content run of one request and what the report says of it
    wpc,          \* position of the request and of the web_content run
    web_docs,     \* items of categorized_files["web_content"]
    tavily_client, \* whether the agent has a search client
    wstate,       \* the AgentState of the web_content run
    web_result,   \* the gather's entry for the web_content task
    web_search_performed, \* the local of _analyze_files_internal
    web_response  \* the response of analyze_files

vars == << content, pc, state, pending, map_done, map_stubs, summaries,
           reduce_inflight, llm_calls, cancelled, result, clock,
           orch, rpc, categorized, launched, run, valid_results, now,
           launch_time, agg_time, response, report, company_info, overtaken,
           files, processed, cat_lists, fpc,
           agent_results, synthesis, narrative, aggregation, scores,
           qpc, qstate, q_inflight, q_calls, questions_result,
           wpc, web_docs, tavily_client, wstate, web_result,
           web_search_performed, web_response >>

agentVars == << content, pc, state, pending, map_done, map_stubs,
                summaries, reduce_inflight, llm_calls, cancelled, result, clock >>
orchVars  == << orch, rpc, categorized, launched, run, valid_results, now,
                launch_time, agg_time, response, report, company_info,
                overtaken >>
fileVars  == << files, processed, cat_lists, fpc >>
scoreVars == << agent_results, synthesis, narrative, aggregation, scores >>
questionVars == << qpc, qstate, q_inflight, q_calls, questions_result >>
webVars == << wpc, web_docs, tavily_client, wstate, web_result,
              web_search_performed, web_response >>
\* what the steps of one part of the program leave alone
notAgentVars == << orchVars, fileVars, scoreVars, questionVars, webVars >>
notOrchVars  == << agentVars, fileVars, scoreVars, questionVars, webVars >>
notFileVars  == << agentVars, orchVars, scoreVars, questionVars, webVars >>
notScoreVars == << agentVars, orchVars, fileVars, questionVars, webVars >>
notQuestionVars == << agentVars, orchVars, fileVars, webVars >>
notWebVars == << agentVars, orchVars, fileVars, scoreVars, questionVars >>

Min(a, b) == IF a <= b THEN a ELSE b
Max(a, b) == IF a >= b THEN a ELSE b

-----------------------------------------------------------------------------
(* Program constants of BaseAgent. *)
AGENT_TIMEOUT_SECONDS == 600
MAX_CONTENT_LENGTH == 1000000
MAX_CHUNKS == 100
MIN_CONTENT_LENGTH == 10
\* RecursiveCharacterTextSplitter(chunk_size, chunk_overlap)
chunk_size == 4000
chunk_overlap == 200
\* length limits of the response validation
MinChunkResponse == 20
MinReduceResponse == 50

(* Bounds of the model. *)
\* the clock advances in steps of TickSeconds
TickSeconds == 200

\* the gather's result list is kept slot by slot for runs of at most
\* MaxTrackedChunks chunks, and as the counts map_done and map_stubs for all
MaxTrackedChunks == 2

\* confidence c is kept as the integer c * ConfScale
ConfScale == 5000

NoResult == [kind |-> "none"]

\* The contents analyze() is called with: a length, and whether the text is
\* blank (whitespace only).
ContentLens == {0, 5, MIN_CONTENT_LENGTH - 1, MIN_CONTENT_LENGTH,
                MIN_CONTENT_LENGTH + 1, chunk_size + 1,
                chunk_size + 2 * (chunk_size - chunk_overlap),
                chunk_size + (MAX_CHUNKS - 1) * (chunk_size - chunk_overlap),
                chunk_size + (MAX_CHUNKS - 1) * (chunk_size - chunk_overlap) + 1,
                MAX_CONTENT_LENGTH + 1}
Contents == [len : ContentLens, blank : BOOLEAN]

\* Lengths of the reduce response the inference collaborator may return.
ReduceLens == {0, 1, MinReduceResponse - 1, MinReduceResponse, 999, 1000, 1001}

\* Lengths of a chunk response; -1 stands for a call that raised.
ChunkLens == {-1, 0, MinChunkResponse - 1, MinChunkResponse}

-----------------------------------------------------------------------------
(* The text splitter: a sliding window of chunk_size characters whose       *)
(* neighbours overlap by chunk_overlap; blank text yields no chunk.         *)
CeilDiv(a, b) == (a + b - 1) \div b

split_count(len, blank) ==
    IF blank \/ len = 0 THEN 0
    ELSE IF len <= chunk_size THEN 1
    ELSE 1 + CeilDiv(len - chunk_size, chunk_size - chunk_overlap)

\* the chunks, named by their position in the text
split_text(len, blank) == [i \in 1..split_count(len, blank) |-> i]

\* metadata.get(key, default): an absent key is kept as -1
MetaGet(v, default) == IF v = -1 THEN default ELSE v

(* _calculate_confidence: min(0.95, max(0.1, 0.6*min(1, L/1000) +           *)
(* 0.4*min(1, n/5))), in units of 1/ConfScale.                              *)
calculate_confidence_unclamped(metadata) ==
    3 * Min(1000, MetaGet(metadata.final_summary_length, 0))
      + 400 * Min(5, MetaGet(metadata.num_chunks, 1))

calculate_confidence(metadata) ==
    LET num_chunks   == MetaGet(metadata.num_chunks, 1)
        final_length == MetaGet(metadata.final_summary_length, 0)
        volume_score == 3 * Min(1000, final_length)
        chunk_score  == 400 * Min(5, num_chunks)
        confidence   == volume_score + chunk_score
    IN  Min((95 * ConfScale) \div 100, Max((10 * ConfScale) \div 100, confidence))

\* asyncio.wait_for: the timer of a scope started at `start` has expired
timer_expired(t, start, timeout) == t - start >= timeout

-----------------------------------------------------------------------------
(* BaseAgent.analyze / _analyze_internal and the workflow nodes.            *)

InitialState(c) ==
    LET truncated == c.len > MAX_CONTENT_LENGTH
    IN  [ raw_text        |-> IF truncated THEN MAX_CONTENT_LENGTH ELSE c.len,
          blank           |-> c.blank,
          chunks          |-> << >>,
          chunk_summaries |-> 0,
          stub_summaries  |-> 0,
          summary_list    |-> << >>,
          final_summary   |-> 0,
          error           |-> "",
          metadata        |-> [ content_truncated    |-> truncated,
                                chunks_truncated     |-> FALSE,
                                num_chunks           |-> -1,
                                final_summary_length |-> -1 ] ]

EmptyState == InitialState([len |-> 0, blank |-> FALSE])

ErrorResult(msg, tag) ==
    [kind |-> "result", analysis |-> msg, confidence |-> 0,
     has_error |-> TRUE, error |-> tag]

\* the guard at the head of _analyze_internal
content_too_short_lax(c) == c.len <= MIN_CONTENT_LENGTH

content_too_short(c) == c.len < MIN_CONTENT_LENGTH

\* the tail of _analyze_internal: the result built from the final state
analyze_internal_result_keep_confidence(s) ==
    IF s.error # ""
    THEN [kind |-> "result", analysis |-> "error_message",
          confidence |-> calculate_confidence(s.metadata),
          has_error |-> TRUE, error |-> s.error]
    ELSE IF s.final_summary = 0
    THEN ErrorResult("no_summary_message", "missing_final_summary")
    ELSE [kind |-> "result", analysis |-> "final_summary",
          confidence |-> calculate_confidence(s.metadata),
          has_error |-> FALSE, error |-> ""]

analyze_internal_result(s) ==
    IF s.error # ""
    THEN ErrorResult("error_message", s.error)
    ELSE IF s.final_summary = 0
    THEN ErrorResult("no_summary_message", "missing_final_summary")
    ELSE [kind |-> "result", analysis |-> "final_summary",
          confidence |-> calculate_confidence(s.metadata),
          has_error |-> FALSE, error |-> ""]

\* the chunk limit of _chunk_text_node
limit_chunks_off_by_one(chunks) ==
    IF Len(chunks) > MAX_CHUNKS THEN SubSeq(chunks, 1, MAX_CHUNKS + 1)
    ELSE chunks

limit_chunks(chunks) ==
    IF Len(chunks) > MAX_CHUNKS THEN SubSeq(chunks, 1, MAX_CHUNKS) ELSE chunks

AgentRunning == pc \notin {"returned"}
AgentTimerDue == AgentRunning /\ timer_expired(clock, 0, AGENT_TIMEOUT_SECONDS)

\* _analyze_internal up to workflow.ainvoke
analyze_internal_start ==
    /\ pc = "init" /\ ~AgentTimerDue
    /\ IF content_too_short(content)
       THEN /\ result' = ErrorResult("too_short_message", "content_too_short")
            /\ pc' = "returned"
            /\ state' = state
       ELSE /\ state' = InitialState(content)
            /\ pc' = "chunk_text"
            /\ result' = result
    /\ UNCHANGED << content, summaries, pending, map_done, map_stubs,
                    reduce_inflight, llm_calls, cancelled, clock >>
    /\ UNCHANGED notAgentVars

\* workflow.ainvoke raises outside the nodes: analyze's `except Exception`
analyze_exception ==
    /\ pc = "chunk_text" /\ ~AgentTimerDue
    /\ result' = ErrorResult("error_message", "exception")
    /\ pc' = "returned"
    /\ UNCHANGED << content, summaries, state, pending, map_done, map_stubs,
                    reduce_inflight, llm_calls, cancelled, clock >>
    /\ UNCHANGED notAgentVars

\* where _chunk_text_node can raise: in split_text, before the chunks are
\* stored, or in the LangSmith add_metadata call, after they are stored
ChunkFaults == {"none", "split_text", "add_metadata"}

chunk_text_node(fault) ==
    /\ pc = "chunk_text" /\ ~AgentTimerDue
    /\ LET chunks == split_text(state.raw_text, state.blank)
           kept == limit_chunks(chunks)
           chunked == [state EXCEPT
                         !.chunks = kept,
                         !.metadata.chunks_truncated
                            = (Len(chunks) > MAX_CHUNKS),
                         !.metadata.num_chunks = Len(kept)]
       IN  state' =
             IF fault = "split_text"
             THEN [state EXCEPT !.error = "Error chunking text"]
             ELSE IF chunks = << >>
             THEN [state EXCEPT !.error = "No text chunks produced"]
             ELSE IF fault = "add_metadata"
             THEN [chunked EXCEPT !.error = "Error chunking text"]
             ELSE chunked
    /\ pc' = "map_chunks"
    /\ UNCHANGED << content, summaries, pending, map_done, map_stubs,
                    reduce_inflight, llm_calls, cancelled, result, clock >>
    /\ UNCHANGED notAgentVars

\* a slot of the gather's result list whose call has not returned
NoSummary == [chunk |-> 0, stub |-> FALSE]

Tracked(s) == Len(s.chunks) <= MaxTrackedChunks

\* _map_chunks_node up to the gather: one _summarize_chunk call per chunk
map_chunks_start ==
    /\ pc = "map_chunks" /\ ~AgentTimerDue
    /\ pending' = Len(state.chunks)
    /\ map_done' = 0 /\ map_stubs' = 0
    /\ summaries' = IF Tracked(state)
                    THEN [i \in 1..Len(state.chunks) |-> NoSummary]
                    ELSE << >>
    /\ llm_calls' = [llm_calls EXCEPT !.map = @ + Len(state.chunks)]
    /\ pc' = "map_wait"
    /\ UNCHANGED << content, state, reduce_inflight, cancelled, result, clock >>
    /\ UNCHANGED notAgentVars

\* _summarize_chunk returns an "Error..." stub instead of response.content;
\* resp is the length of response.content, or -1 when the call raised
is_stub(resp) == resp = -1 \/ resp = 0 \/ resp < MinChunkResponse

\* asyncio.gather stores the value the i-th awaitable returned at position i
gather_in_completion_order(results, i, value) ==
    LET free == {k \in 1..Len(results) : results[k] = NoSummary}
        first == CHOOSE k \in free : \A j \in free : k <= j
    IN  [results EXCEPT ![first] = value]

gather(results, i, value) == [results EXCEPT ![i] = value]

\* the _summarize_chunk call of chunk i returns (i = 0: some chunk of a run
\* whose result list is kept as counts only)
summarize_chunk(i, resp) ==
    /\ pc = "map_wait" /\ ~AgentTimerDue
    /\ pending > 0
    /\ IF Tracked(state)
       THEN /\ i \in 1..Len(state.chunks)
            /\ summaries[i] = NoSummary
            /\ summaries' = gather(summaries, i,
                                   [chunk |-> state.chunks[i],
                                    stub |-> is_stub(resp)])
       ELSE /\ i = 0
            /\ summaries' = summaries
    /\ pending' = pending - 1
    /\ map_done' = map_done + 1
    /\ map_stubs' = map_stubs + (IF is_stub(resp) THEN 1 ELSE 0)
    /\ UNCHANGED << content, pc, state, reduce_inflight, llm_calls, cancelled,
                    result, clock >>
    /\ UNCHANGED notAgentVars

\* `await asyncio.gather(*tasks)` returns when every task is done
gather_returns_first_completed == pending = 0 \/ map_done > 0

gather_returns == pending = 0

\* _map_chunks_node after the gather
map_chunks_finish(fault) ==
    /\ pc = "map_wait" /\ ~AgentTimerDue
    /\ gather_returns
    /\ state' = [state EXCEPT
                   !.chunk_summaries = map_done,
                   !.stub_summaries = map_stubs,
                   !.summary_list = summaries,
                   !.error = IF fault THEN "Error in map phase" ELSE @]
    /\ pc' = "reduce_summaries"
    /\ UNCHANGED << content, summaries, pending, map_done, map_stubs,
                    reduce_inflight, llm_calls, cancelled, result, clock >>
    /\ UNCHANGED notAgentVars

\* _reduce_summaries_node up to the inference call
reduce_summaries_call ==
    /\ pc = "reduce_summaries" /\ ~AgentTimerDue
    /\ reduce_inflight' = TRUE
    /\ llm_calls' = [llm_calls EXCEPT !.reduce = @ + 1]
    /\ pc' = "reduce_wait"
    /\ UNCHANGED << content, summaries, state, pending, map_done, map_stubs,
                    cancelled, result, clock >>
    /\ UNCHANGED notAgentVars

\* the state after the response validation of _reduce_summaries_node;
\* resp is the length of response.content, or -1 when the call raised
reduce_validate_unchecked(s, resp) ==
    IF resp = -1 THEN [s EXCEPT !.error = "Error in reduce phase"]
    ELSE [s EXCEPT !.final_summary = resp,
                   !.metadata.final_summary_length = resp]

reduce_validate(s, resp) ==
    IF resp = -1 THEN [s EXCEPT !.error = "Error in reduce phase"]
    ELSE IF resp = 0
    THEN [s EXCEPT !.error = "LLM returned empty response in reduce phase"]
    ELSE IF resp < MinReduceResponse
    THEN [s EXCEPT !.error = "LLM response too short"]
    ELSE [s EXCEPT !.final_summary = resp,
                   !.metadata.final_summary_length = resp]

reduce_summaries_done(resp) ==
    /\ pc = "reduce_wait" /\ ~AgentTimerDue
    /\ reduce_inflight
    /\ reduce_inflight' = FALSE
    /\ state' = reduce_validate(state, resp)
    /\ pc' = "end"
    /\ UNCHANGED << content, summaries, pending, map_done, map_stubs,
                    llm_calls, cancelled, result, clock >>
    /\ UNCHANGED notAgentVars

\* the workflow reached END: _analyze_internal returns through wait_for
analyze_internal_return ==
    /\ pc = "end" /\ ~AgentTimerDue
    /\ result' = analyze_internal_result(state)
    /\ pc' = "returned"
    /\ UNCHANGED << content, summaries, state, pending, map_done, map_stubs,
                    reduce_inflight, llm_calls, cancelled, clock >>
    /\ UNCHANGED notAgentVars

\* the result of analyze's `except asyncio.TimeoutError`
timeout_result_raw == [kind |-> "raised"]

timeout_result == ErrorResult("timeout_message", "timeout")

\* wait_for's timer fires: the workflow is cancelled, analyze returns
analyze_timeout ==
    /\ AgentTimerDue
    /\ result' = timeout_result
    /\ cancelled' = cancelled + pending + (IF reduce_inflight THEN 1 ELSE 0)
    /\ pending' = 0
    /\ reduce_inflight' = FALSE
    /\ pc' = "returned"
    /\ UNCHANGED << content, summaries, state, map_done, map_stubs, llm_calls,
                    clock >>
    /\ UNCHANGED notAgentVars

\* the invocation is suspended in an await of the inference collaborator
AgentAwaiting ==
    \/ pc = "map_wait" /\ pending > 0
    \/ pc = "reduce_wait" /\ reduce_inflight

\* time passes while the invocation awaits the inference collaborator
AgentTick ==
    /\ AgentAwaiting /\ ~AgentTimerDue
    /\ clock' = clock + TickSeconds
    /\ UNCHANGED << content, summaries, pc, state, pending, map_done,
                    map_stubs, reduce_inflight, llm_calls, cancelled, result >>
    /\ UNCHANGED notAgentVars

-----------------------------------------------------------------------------
(* Text helpers: str.lower(), `k in s`, s.endswith(e).                      *)
LowerChar(ch) ==
    CASE ch = "A" -> "a"
      [] ch = "B" -> "b"
      [] ch = "C" -> "c"
      [] ch = "D" -> "d"
      [] ch = "E" -> "e"
      [] ch = "F" -> "f"
      [] ch = "G" -> "g"
      [] ch = "H" -> "h"
      [] ch = "I" -> "i"
      [] ch = "J" -> "j"
      [] ch = "K" -> "k"
      [] ch = "L" -> "l"
      [] ch = "M" -> "m"
      [] ch = "N" -> "n"
      [] ch = "O" -> "o"
      [] ch = "P" -> "p"
      [] ch = "Q" -> "q"
      [] ch = "R" -> "r"
      [] ch = "S" -> "s"
      [] ch = "T" -> "t"
      [] ch = "U" -> "u"
      [] ch = "V" -> "v"
      [] ch = "W" -> "w"
      [] ch = "X" -> "x"
      [] ch = "Y" -> "y"
      [] ch = "Z" -> "z"
      [] OTHER -> ch

RECURSIVE Lower(_)
Lower(str) ==
    IF Len(str) = 0 THEN ""
    ELSE IF Len(str) = 1 THEN LowerChar(str)
    ELSE LET half == Len(str) \div 2
         IN  Lower(SubSeq(str, 1, half)) \o Lower(SubSeq(str, half + 1, Len(str)))

Contains(str, k) ==
    \E i \in 1..(Len(str) - Len(k) + 1) : SubSeq(str, i, i + Len(k) - 1) = k

EndsWith(str, e) ==
    Len(str) >= Len(e) /\ SubSeq(str, Len(str) - Len(e) + 1, Len(str)) = e

AnyIn(keywords, str) == \E k \in keywords : Contains(str, k)
AnyEnd(exts, str) == \E e \in exts : EndsWith(str, e)

-----------------------------------------------------------------------------
(* FileProcessor and _process_and_categorize_files.                         *)

\* the number of files of a request
MaxFiles == 2

FileNames == {"kpi.pdf", "blog.csv", "call.txt", "a.pdf", "a.XLS", "a.md",
              "a.bin", "", "Deck_kpi", "Feedback_FAQ.xlsx"}
ContentTypes == {"application/pdf", "text/plain"}

\* FileProcessor.categorize_file without its last branch
categorize_file_no_default(filename, content_type) ==
    LET filename_lower == Lower(filename)
    IN  IF AnyIn({"pitch", "deck", "presentation", "slides"}, filename_lower)
        THEN "pitch_deck"
        ELSE IF AnyIn({"financial", "traction", "metrics", "kpi", "revenue",
                       "onepager", "one-pager"}, filename_lower)
        THEN "data_room"
        ELSE IF AnyIn({"website", "landing", "blog", "faq", "web", "content"},
                      filename_lower)
        THEN "web_content"
        ELSE IF AnyIn({"call", "recording", "transcript", "interview",
                       "questionnaire", "feedback"}, filename_lower)
        THEN "interaction"
        ELSE IF AnyEnd({".pdf", ".pptx", ".key"}, filename_lower)
        THEN "pitch_deck"
        ELSE IF AnyEnd({".xlsx", ".xls", ".csv"}, filename_lower)
        THEN "data_room"
        ELSE IF AnyEnd({".txt", ".md", ".json"}, filename_lower)
        THEN "web_content"
        ELSE "None"

\* FileProcessor.categorize_file with the file type tested before the key words
categorize_file_extension_first(filename, content_type) ==
    LET filename_lower == Lower(filename)
    IN  IF AnyEnd({".pdf", ".pptx", ".key"}, filename_lower)
        THEN "pitch_deck"
        ELSE IF AnyEnd({".xlsx", ".xls", ".csv"}, filename_lower)
        THEN "data_room"
        ELSE IF AnyEnd({".txt", ".md", ".json"}, filename_lower)
        THEN "web_content"
        ELSE IF AnyIn({"pitch", "deck", "presentation", "slides"},
                      filename_lower)
        THEN "pitch_deck"
        ELSE IF AnyIn({"financial", "traction", "metrics", "kpi", "revenue",
                       "onepager", "one-pager"}, filename_lower)
        THEN "data_room"
        ELSE IF AnyIn({"website", "landing", "blog", "faq", "web", "content"},
                      filename_lower)
        THEN "web_content"
        ELSE IF AnyIn({"call", "recording", "transcript", "interview",
                       "questionnaire", "feedback"}, filename_lower)
        THEN "interaction"
        ELSE "general"

\* FileProcessor.categorize_file
categorize_file(filename, content_type) ==
    LET filename_lower == Lower(filename)
    IN  IF AnyIn({"pitch", "deck", "presentation", "slides"}, filename_lower)
        THEN "pitch_deck"
        ELSE IF AnyIn({"financial", "traction", "metrics", "kpi", "revenue",
                       "onepager", "one-pager"}, filename_lower)
        THEN "data_room"
        ELSE IF AnyIn({"website", "landing", "blog", "faq", "web", "content"},
                      filename_lower)
        THEN "web_content"
        ELSE IF AnyIn({"call", "recording", "transcript", "interview",
                       "questionnaire", "feedback"}, filename_lower)
        THEN "interaction"
        ELSE IF AnyEnd({".pdf", ".pptx", ".key"}, filename_lower)
        THEN "pitch_deck"
        ELSE IF AnyEnd({".xlsx", ".xls", ".csv"}, filename_lower)
        THEN "data_room"
        ELSE IF AnyEnd({".txt", ".md", ".json"}, filename_lower)
        THEN "web_content"
        ELSE "general"

Pending == [kind |-> "pending"]

\* FileProcessor.extract_text_from_upload for file i.  file.read() is outside
\* the try: when it raises ("read_error") the task raises.  A fault of the
\* extraction proper ("parse_error", an unsupported type included) is caught
\* and an error text is returned with the metadata.
extract_text_from_upload(i, outcome, content_type) ==
    IF outcome = "read_error" THEN [kind |-> "exception"]
    ELSE [kind |-> "result",
          content |-> IF outcome = "ok" THEN "text" ELSE "error_text",
          filename |-> files[i], content_type |-> content_type,
          has_error |-> outcome # "ok", category |-> "unset"]

\* one task of the gather over _process_single_file finishes
process_single_file(i, outcome, content_type) ==
    /\ fpc = "gather"
    /\ i \in 1..Len(files) /\ processed[i] = Pending
    /\ processed' = [processed EXCEPT
                       ![i] = extract_text_from_upload(i, outcome, content_type)]
    /\ UNCHANGED << files, cat_lists, fpc >>
    /\ UNCHANGED notFileVars

\* the loop over processed_files, from index i on
RECURSIVE categorize_loop(_, _, _)
categorize_loop(i, results, lists) ==
    IF i > Len(results) THEN [processed |-> results, lists |-> lists]
    ELSE IF results[i].kind = "exception"
    THEN categorize_loop(i + 1, results, lists)
    ELSE LET category == categorize_file(results[i].filename,
                                         results[i].content_type)
             key == IF category \in DOMAIN lists THEN category ELSE "general"
         IN  categorize_loop(i + 1,
                 [results EXCEPT ![i].category = category],
                 [lists EXCEPT ![key] = Append(@, i)])

\* the gather has returned: every result is categorized
categorize_files ==
    /\ fpc = "gather"
    /\ \A i \in 1..Len(files) : processed[i] # Pending
    /\ LET out == categorize_loop(1, processed, cat_lists)
       IN  /\ processed' = out.processed
           /\ cat_lists' = out.lists
    /\ fpc' = "done"
    /\ UNCHANGED files
    /\ UNCHANGED notFileVars

-----------------------------------------------------------------------------
(* EnhancedAggregatorAgent: the investment scores.                          *)

\* the points of the signals, once for every place a signal occurs at
RECURSIVE add_signals_per_occurrence(_, _, _)
add_signals_per_occurrence(score, signals, text) ==
    IF Len(signals) = 0 THEN score
    ELSE LET signal == Head(signals)[1]
             places == {i \in 1..(Len(text) - Len(signal) + 1) :
                          SubSeq(text, i, i + Len(signal) - 1) = signal}
         IN  add_signals_per_occurrence(
                 score + Cardinality(places) * Head(signals)[2],
                 Tail(signals), text)

\* the points of the signals that occur in text, added to score
RECURSIVE add_signals(_, _, _)
add_signals(score, signals, text) ==
    IF Len(signals) = 0 THEN score
    ELSE add_signals(IF Contains(text, Head(signals)[1])
                     THEN score + Head(signals)[2] ELSE score,
                     Tail(signals), text)

\* _calculate_team_score before its last line
team_points(text) ==
    LET positive_signals ==
          << << "founder", 5 >>, << "experience", 5 >>,
             << "track record", 5 >>, << "technical", 5 >>,
             << "domain expert", 10 >>, << "previous exit", 10 >>,
             << "strong team", 5 >>, << "seasoned", 5 >>,
             << "veteran", 5 >> >>
        negative_signals ==
          << << "first-time", -5 >>, << "inexperienced", -10 >>,
             << "solo founder", -5 >>, << "no technical", -10 >>,
             << "team risk", -5 >> >>
    IN  add_signals(add_signals(40, positive_signals, text),
                    negative_signals, text)

calculate_team_score(text) == Min(100, Max(0, team_points(text)))

\* _calculate_market_score before its last line
market_points(text) ==
    LET positive_signals ==
          << << "large market", 10 >>, << "billion", 10 >>,
             << "growing market", 5 >>, << "tam", 5 >>,
             << "market opportunity", 5 >>, << "unmet need", 5 >>,
             << "pain point", 5 >>, << "urgent", 5 >> >>
        negative_signals ==
          << << "small market", -10 >>, << "declining", -10 >>,
             << "saturated", -10 >>, << "competitive", -5 >>,
             << "low barrier", -5 >> >>
    IN  add_signals(add_signals(40, positive_signals, text),
                    negative_signals, text)

calculate_market_score(text) == Min(100, Max(0, market_points(text)))

\* _calculate_product_score before its last line
product_points(text) ==
    LET positive_signals ==
          << << "innovative", 5 >>, << "proprietary", 10 >>,
             << "patent", 10 >>, << "unique", 5 >>,
             << "differentiated", 5 >>, << "scalable", 5 >>,
             << "platform", 5 >>, << "network effect", 10 >>,
             << "moat", 10 >> >>
        negative_signals ==
          << << "commodity", -10 >>, << "no differentiation", -10 >>,
             << "me too", -10 >>, << "easily copied", -5 >>,
             << "no moat", -5 >> >>
    IN  add_signals(add_signals(40, positive_signals, text),
                    negative_signals, text)

calculate_product_score(text) == Min(100, Max(0, product_points(text)))

\* _calculate_traction_score before its last line
traction_points(text) ==
    LET positive_signals ==
          << << "revenue", 10 >>, << "growth", 10 >>,
             << "customers", 5 >>, << "retention", 10 >>,
             << "engagement", 5 >>, << "viral", 10 >>,
             << "testimonial", 5 >>, << "case study", 5 >>,
             << "mrr", 10 >>, << "arr", 10 >> >>
        negative_signals ==
          << << "no revenue", -15 >>, << "no customers", -15 >>,
             << "churn", -10 >>, << "declining", -10 >>,
             << "no traction", -15 >> >>
    IN  add_signals(add_signals(30, positive_signals, text),
                    negative_signals, text)

\* _calculate_traction_score returning the sum as it is
calculate_traction_score_unclamped(text) == traction_points(text)

calculate_traction_score(text) == Min(100, Max(0, traction_points(text)))

\* _calculate_financials_score before its last line
financials_points(text) ==
    LET positive_signals ==
          << << "profitable", 20 >>, << "positive cash", 15 >>,
             << "efficient", 10 >>, << "low burn", 10 >>,
             << "runway", 5 >>, << "unit economics", 10 >> >>
        negative_signals ==
          << << "high burn", -15 >>, << "no runway", -20 >>,
             << "cash crunch", -20 >>, << "unsustainable", -15 >> >>
    IN  add_signals(add_signals(40, positive_signals, text),
                    negative_signals, text)

calculate_financials_score(text) == Min(100, Max(0, financials_points(text)))

\* _calculate_moat_score before its last line
moat_points(text) ==
    LET positive_signals ==
          << << "network effect", 20 >>, << "data advantage", 15 >>,
             << "patent", 15 >>, << "proprietary", 10 >>,
             << "switching cost", 10 >>, << "brand", 5 >>,
             << "regulatory barrier", 10 >>, << "exclusive", 10 >> >>
        negative_signals ==
          << << "no moat", -20 >>, << "easily replicated", -15 >>,
             << "commodity", -15 >> >>
    IN  add_signals(add_signals(30, positive_signals, text),
                    negative_signals, text)

calculate_moat_score(text) == Min(100, Max(0, moat_points(text)))

ScoreNames == {"team", "market", "product", "traction", "financials", "moat"}

\* the unit of a weight: 1/WeightScale, so that 0.25 is 25
WeightScale == 100

\* `weights`, in 1/WeightScale
weights ==
    [team |-> 25, market |-> 25, product |-> 20, traction |-> 20,
     financials |-> 5, moat |-> 5]

\* sum(scores[category] * weights[category] for category in scores), in
\* 1/WeightScale
weighted_sum(sc, w) ==
    sc.team * w.team + sc.market * w.market + sc.product * w.product
      + sc.traction * w.traction + sc.financials * w.financials
      + sc.moat * w.moat

\* _calculate_investment_scores with the thresholds excluded from their labels
calculate_investment_scores_strict(analysis_in) ==
    LET analysis_text == Lower(analysis_in)
        sc == [team       |-> calculate_team_score(analysis_text),
               market     |-> calculate_market_score(analysis_text),
               product    |-> calculate_product_score(analysis_text),
               traction   |-> calculate_traction_score(analysis_text),
               financials |-> calculate_financials_score(analysis_text),
               moat       |-> calculate_moat_score(analysis_text)]
        weighted_score == weighted_sum(sc, weights)
    IN  [kind |-> "scores",
         score |-> sc,
         overall_weighted |-> weighted_score,
         weights |-> weights,
         recommendation |->
            IF weighted_score > 75 * WeightScale THEN "Strong Buy"
            ELSE IF weighted_score > 60 * WeightScale THEN "Buy"
            ELSE IF weighted_score > 45 * WeightScale THEN "Hold"
            ELSE "Pass"]

\* _calculate_investment_scores(analysis), analysis["analysis"] = analysis_in
calculate_investment_scores(analysis_in) ==
    LET analysis_text == Lower(analysis_in)
        sc == [team       |-> calculate_team_score(analysis_text),
               market     |-> calculate_market_score(analysis_text),
               product    |-> calculate_product_score(analysis_text),
               traction   |-> calculate_traction_score(analysis_text),
               financials |-> calculate_financials_score(analysis_text),
               moat       |-> calculate_moat_score(analysis_text)]
        weighted_score == weighted_sum(sc, weights)
    IN  [kind |-> "scores",
         score |-> sc,
         overall_weighted |-> weighted_score,
         weights |-> weights,
         recommendation |->
            IF weighted_score >= 75 * WeightScale THEN "Strong Buy"
            ELSE IF weighted_score >= 60 * WeightScale THEN "Buy"
            ELSE IF weighted_score >= 45 * WeightScale THEN "Hold"
            ELSE "Pass"]

\* aggregate_analyses after the metadata update: the founder questions
\* (questions_ok: question generation returned, else it raised and the
\* except sets "") and the scores are attached to what self.analyze returned
attach_questions_and_scores_when_done(synthesis_in, questions_ok) ==
    [kind |-> "result",
     analysis |-> synthesis_in.analysis,
     confidence |-> synthesis_in.confidence,
     has_error |-> synthesis_in.has_error,
     error |-> synthesis_in.error,
     founder_questions |-> IF questions_ok THEN "questions" ELSE "",
     scores |-> IF synthesis_in.has_error \/ ~questions_ok
                THEN [kind |-> "empty"]
                ELSE calculate_investment_scores(synthesis_in.analysis)]

attach_questions_and_scores(synthesis_in, questions_ok) ==
    [kind |-> "result",
     analysis |-> synthesis_in.analysis,
     confidence |-> synthesis_in.confidence,
     has_error |-> synthesis_in.has_error,
     error |-> synthesis_in.error,
     founder_questions |-> IF questions_ok THEN "questions" ELSE "",
     scores |-> calculate_investment_scores(synthesis_in.analysis)]

\* aggregation_result["metadata"].update(...)
update_metadata(results_in, aggregation_result) ==
    [kind |-> "result",
     analysis |-> aggregation_result.analysis,
     confidence |-> aggregation_result.confidence,
     has_error |-> aggregation_result.has_error,
     error |-> aggregation_result.error,
     source_agents |-> [i \in 1..Len(results_in) |-> results_in[i].agent],
     total_analyses |-> Len(results_in),
     founder_questions |-> aggregation_result.founder_questions,
     scores |-> aggregation_result.scores]

\* aggregate_analyses(agent_results): synthesis is what self.analyze returned
\* for the combined content
aggregate_analyses(results_in, synthesis_in, questions_ok) ==
    update_metadata(results_in,
                    attach_questions_and_scores(synthesis_in, questions_ok))

\* aggregate_analyses, from the synthesis on: the scores are attached
attach_scores(questions_ok) ==
    /\ scores.kind = "none"
    /\ aggregation' = aggregate_analyses(agent_results, synthesis, questions_ok)
    /\ scores' = aggregation'.scores
    /\ UNCHANGED << agent_results, synthesis, narrative >>
    /\ UNCHANGED notScoreVars

-----------------------------------------------------------------------------
(* FounderQuestionAgent: the question workflow, and the part of             *)
(* aggregate_analyses that runs it and attaches its result.                 *)

\* the nodes of the workflow, in the order of its edges
QuestionNodes == << "analyze_gaps", "generate_domain_questions",
                    "generate_alignment_questions", "generate_risk_questions",
                    "compile_questions" >>

NodeIndex(node) == CHOOSE i \in 1..Len(QuestionNodes) : QuestionNodes[i] = node

\* edges that run the risk node before the alignment node
next_node_risk_first(node) ==
    CASE node = "generate_domain_questions" -> "generate_risk_questions"
      [] node = "generate_risk_questions" -> "generate_alignment_questions"
      [] node = "generate_alignment_questions" -> "compile_questions"
      [] node = "analyze_gaps" -> "generate_domain_questions"
      [] node = "compile_questions" -> "END"

\* workflow.add_edge: the node that follows
next_node(node) ==
    IF NodeIndex(node) = Len(QuestionNodes) THEN "END"
    ELSE QuestionNodes[NodeIndex(node) + 1]

\* the metadata key under which a node stores response.content
metadata_key(node) ==
    CASE node = "analyze_gaps" -> "identified_gaps"
      [] node = "generate_domain_questions" -> "domain_questions"
      [] node = "generate_alignment_questions" -> "alignment_questions"
      [] node = "generate_risk_questions" -> "risk_questions"

\* the state["error"] a node sets in its `except Exception`
node_error(node) ==
    CASE node = "analyze_gaps" -> "Error analyzing gaps"
      [] node = "generate_domain_questions"
           -> "Error generating domain questions"
      [] node = "generate_alignment_questions"
           -> "Error generating alignment questions"
      [] node = "generate_risk_questions" -> "Error generating risk questions"
      [] node = "compile_questions" -> "Error compiling questions"

\* what the inference call of a node may do: raise, or return a response
\* whose content is empty or a text
NodeOutcomes == {"raise", "empty", "text"}

response_content(node, outcome) ==
    IF outcome = "empty" THEN "" ELSE "response of " \o node

\* dict.get(key, default) and dict[key] = value
DictGet(dict, key, default) ==
    IF key \in DOMAIN dict THEN dict[key] ELSE default

DictSet(dict, key, value) == (key :> value) @@ dict

\* the initial AgentState of generate_questions_from_analyses
QuestionState ==
    [ raw_text      |-> "analysis_text",
      final_summary |-> "",
      error         |-> "",
      metadata      |-> ("agent_type" :> "FounderQuestionAgent")
                          @@ ("generation_type" :> "targeted_questions") ]

\* generate_questions_from_analyses up to workflow.ainvoke
generate_questions_start ==
    /\ qpc = "start"
    /\ qstate' = QuestionState
    /\ qpc' = QuestionNodes[1]
    /\ UNCHANGED << q_inflight, q_calls, questions_result >>
    /\ UNCHANGED << scoreVars, notQuestionVars >>

\* generate_questions_from_analyses raises, outside the nodes
generate_questions_raises ==
    /\ qpc = "start"
    /\ questions_result' = [kind |-> "raised"]
    /\ qpc' = "returned"
    /\ UNCHANGED << qstate, q_inflight, q_calls >>
    /\ UNCHANGED << scoreVars, notQuestionVars >>

\* a node up to `await self.llm.ainvoke(messages)`
question_node_call(node) ==
    /\ qpc = node /\ q_inflight = ""
    /\ q_inflight' = node
    /\ q_calls' = Append(q_calls, node)
    /\ UNCHANGED << qpc, qstate, questions_result >>
    /\ UNCHANGED << scoreVars, notQuestionVars >>

\* the state a node returns that stopped at the first failure
node_result_aborting(s, node, outcome) ==
    IF outcome = "raise" \/ s.error # ""
    THEN [s EXCEPT !.error = IF @ # "" THEN @ ELSE node_error(node)]
    ELSE IF node = "compile_questions"
    THEN [s EXCEPT !.final_summary = response_content(node, outcome),
                   !.metadata = DictSet(@, "questions_generated", TRUE)]
    ELSE [s EXCEPT !.metadata = DictSet(@, metadata_key(node),
                                        response_content(node, outcome))]

\* the state a node returns: the response stored, or the error set
node_result(s, node, outcome) ==
    IF outcome = "raise"
    THEN [s EXCEPT !.error = node_error(node)]
    ELSE IF node = "compile_questions"
    THEN [s EXCEPT !.final_summary = response_content(node, outcome),
                   !.metadata = DictSet(@, "questions_generated", TRUE)]
    ELSE [s EXCEPT !.metadata = DictSet(@, metadata_key(node),
                                        response_content(node, outcome))]

\* the inference call of a node returns or raises, and the node returns
question_node_return(node, outcome) ==
    /\ qpc = node /\ q_inflight = node
    /\ q_inflight' = ""
    /\ qstate' = node_result(qstate, node, outcome)
    /\ qpc' = next_node(node)
    /\ UNCHANGED << q_calls, questions_result >>
    /\ UNCHANGED << scoreVars, notQuestionVars >>

NoCategories == [kind |-> "empty"]

\* the dict generate_questions_from_analyses returns for the final state
questions_result_of(s) ==
    IF s.error # ""
    THEN [kind |-> "error",
          questions |-> "Error generating questions: " \o s.error,
          error |-> s.error]
    ELSE [kind |-> "questions",
          questions |-> s.final_summary,
          gaps_identified |-> DictGet(s.metadata, "identified_gaps", ""),
          categories |->
            [kind |-> "categories",
             domain |-> DictGet(s.metadata, "domain_questions", ""),
             alignment |-> DictGet(s.metadata, "alignment_questions", ""),
             risk |-> DictGet(s.metadata, "risk_questions", "")]]

\* the workflow reached END: generate_questions_from_analyses returns
generate_questions_return ==
    /\ qpc = "END"
    /\ questions_result' = questions_result_of(qstate)
    /\ qpc' = "returned"
    /\ UNCHANGED << qstate, q_inflight, q_calls >>
    /\ UNCHANGED << scoreVars, notQuestionVars >>

\* aggregate_analyses: the questions, categories and gaps it stores for what
\* the question generator returned, or for its exception
attach_questions(aggregation_result, returned) ==
    [kind |-> "result",
     analysis |-> aggregation_result.analysis,
     confidence |-> aggregation_result.confidence,
     has_error |-> aggregation_result.has_error,
     error |-> aggregation_result.error,
     founder_questions |->
       IF returned.kind = "raised" THEN "" ELSE returned.questions,
     question_categories |->
       IF returned.kind = "questions" THEN returned.categories
       ELSE NoCategories,
     identified_gaps |->
       IF returned.kind = "questions" THEN returned.gaps_identified ELSE "",
     scores |-> calculate_investment_scores(aggregation_result.analysis)]

\* aggregate_analyses after the question generation
aggregate_analyses_finish ==
    /\ qpc = "returned"
    /\ aggregation' = attach_questions(synthesis, questions_result)
    /\ scores' = aggregation'.scores
    /\ qpc' = "attached"
    /\ UNCHANGED << agent_results, synthesis, narrative >>
    /\ UNCHANGED << qstate, q_inflight, q_calls, questions_result >>
    /\ UNCHANGED notQuestionVars

-----------------------------------------------------------------------------
(* The orchestrators: MultiAgentOrchestrator ("basic") and                  *)
(* EnhancedMultiAgentOrchestrator ("enhanced").                             *)

\* guardrail of the enhanced orchestrator
ANALYSIS_TIMEOUT_SECONDS == 600
MAX_FILES_PER_REQUEST == 10

\* time that file processing and company extraction may take at most
MaxSetupSeconds == 400

\* the keys of `categorized`, in the order the dict is built
CategoryOrder == << "pitch_deck", "data_room", "web_content", "interaction",
                    "general" >>
Categories == {CategoryOrder[i] : i \in 1..Len(CategoryOrder)}

\* self.agents
AgentCategories == {"pitch_deck", "data_room", "web_content", "interaction"}

NoRun == [status |-> "none", slow |-> FALSE, result |-> NoResult]

\* results a category's analyze() may return by itself
OkResult ==
    [kind |-> "result", analysis |-> "final_summary",
     confidence |-> calculate_confidence([final_summary_length |-> 1000,
                                          num_chunks |-> 1]),
     has_error |-> FALSE, error |-> ""]
AnalyzeOutcomes == {OkResult, ErrorResult("error_message", "LLM response too short")}

\* _run_agent_analysis: the result of analyze() tagged with the category
tag_result(c, r) ==
    [agent |-> c, analysis |-> r.analysis, confidence |-> r.confidence,
     has_error |-> r.has_error, error |-> r.error]

\* the entry standing for a task that raised
error_entry_dropped(seq) == seq

error_entry(seq) ==
    Append(seq, [agent |-> "error", analysis |-> "Agent error",
                 confidence |-> 0, has_error |-> FALSE, error |-> ""])

\* the loop over agent_results: exceptions become error entries
RECURSIVE filter_results(_, _, _)
filter_results(cats, runs, acc) ==
    IF cats = << >> THEN acc
    ELSE LET c == Head(cats)
         IN  filter_results(Tail(cats), runs,
                 IF runs[c].status = "raised" THEN error_entry(acc)
                 ELSE Append(acc, runs[c].result))

\* agent_tasks: the categories with an agent and with documents, in dict order
RECURSIVE agent_tasks(_, _)
agent_tasks(cats, files_of) ==
    IF cats = << >> THEN << >>
    ELSE LET c == Head(cats)
             rest == agent_tasks(Tail(cats), files_of)
         IN  IF c \in AgentCategories /\ files_of[c] > 0 THEN << c >> \o rest
             ELSE rest

\* len(files): the documents of the request
FileCount ==
    categorized["pitch_deck"] + categorized["data_room"]
      + categorized["web_content"] + categorized["interaction"]
      + categorized["general"]

Launched == {launched[i] : i \in 1..Len(launched)}
Running == {c \in Launched : run[c].status = "running"}

\* the timer of analyze_files' wait_for (the basic orchestrator has none)
RequestTimerDue ==
    /\ orch = "enhanced"
    /\ rpc \in {"process", "extract", "gather", "aggregate"}
    /\ timer_expired(now, 0, ANALYSIS_TIMEOUT_SECONDS)

\* the timers of the category runs' analyze()
RunTimerDue ==
    /\ rpc = "gather" /\ Running # {}
    /\ timer_expired(now, launch_time, AGENT_TIMEOUT_SECONDS)

\* the timer of the aggregator's analyze()
AggTimerDue ==
    /\ rpc = "aggregate"
    /\ timer_expired(now, agg_time, AGENT_TIMEOUT_SECONDS)

\* the empty dict
EmptyScores == [kind |-> "empty"]

SuccessResponse(final, results) ==
    [kind |-> "response", status |-> "ok", final_summary |-> final,
     investment_scores |-> final.scores,
     agent_analyses |-> results, agents_used |-> Len(results)]

\* the response of analyze_files' `except asyncio.TimeoutError`
TimeoutResponse ==
    [kind |-> "response", status |-> "timeout",
     final_summary |-> ErrorResult("timeout_message", "timeout"),
     investment_scores |-> EmptyScores,
     agent_analyses |-> << >>, agents_used |-> 0]

\* the response of analyze_files' `except Exception`
ErrorResponse ==
    [kind |-> "response", status |-> "error",
     final_summary |-> ErrorResult("Analysis failed", "exception_text"),
     investment_scores |-> EmptyScores,
     agent_analyses |-> << >>, agents_used |-> 0]

\* analyze_files left by an exception
RaisedResponse(exception) == [kind |-> "raised", exception |-> exception]

\* the /analyze endpoint refuses a request without files
analyze_investment_rejects ==
    /\ rpc = "start" /\ report.kind = "pending" /\ FileCount = 0
    /\ report' = [kind |-> "http_error", status_code |-> 400,
                  detail |-> "No files provided for analysis"]
    /\ rpc' = "reported"
    /\ UNCHANGED << overtaken, company_info, orch, categorized, launched, run,
                    valid_results, now, launch_time, agg_time, response >>
    /\ UNCHANGED notOrchVars

\* analyze_files: the file count guard of the enhanced orchestrator
TooManyFiles == orch = "enhanced" /\ FileCount > MAX_FILES_PER_REQUEST

\* analyze_files is called and passes its guard
analyze_files_start ==
    /\ rpc = "start" /\ ~TooManyFiles
    /\ ~(report.kind = "pending" /\ FileCount = 0)
    /\ rpc' = "process"
    /\ UNCHANGED << overtaken, company_info, orch, categorized, launched, run,
                    valid_results, now, launch_time, agg_time, response,
                    report >>
    /\ UNCHANGED notOrchVars

\* analyze_files raises ValueError for too many files, before its try block
analyze_files_rejects ==
    /\ rpc = "start" /\ TooManyFiles
    /\ response' = RaisedResponse("ValueError")
    /\ rpc' = "responded"
    /\ UNCHANGED << overtaken, company_info, orch, categorized, launched, run,
                    valid_results, now, launch_time, agg_time, report >>
    /\ UNCHANGED notOrchVars

\* _analyze_files_internal raises while the search item is built from the
\* extracted company info: analyze_files' `except Exception` answers
internal_raises ==
    /\ orch = "enhanced" /\ rpc = "extract" /\ ~RequestTimerDue
    /\ response' = ErrorResponse
    /\ rpc' = "responded"
    /\ UNCHANGED << overtaken, company_info, orch, categorized, launched, run,
                    valid_results, now, launch_time, agg_time, report >>
    /\ UNCHANGED notOrchVars

\* the /analyze endpoint: analyze_files has returned or raised
analyze_investment_done ==
    /\ rpc = "responded" /\ report.kind = "pending"
    /\ report' =
         IF response.kind = "raised"
         THEN [kind |-> "http_error", status_code |-> 500,
               detail |-> "Analysis failed"]
         ELSE [kind |-> "report", status |-> "success",
               investment_summary |-> response.final_summary.analysis,
               investment_scores |-> response.investment_scores,
               confidence_score |-> response.final_summary.confidence]
    /\ rpc' = "reported"
    /\ UNCHANGED << overtaken, company_info, orch, categorized, launched, run,
                    valid_results, now, launch_time, agg_time, response >>
    /\ UNCHANGED notOrchVars

\* _process_and_categorize_files has returned `categorized`
process_files_done ==
    /\ rpc = "process" /\ ~RequestTimerDue
    /\ rpc' = IF orch = "enhanced" THEN "extract" ELSE "launch"
    /\ UNCHANGED << overtaken, company_info, orch, categorized, launched, run,
                    valid_results, now, launch_time, agg_time, response >>
    /\ UNCHANGED << report, notOrchVars >>

\* steps 2 and 3 of _analyze_files_internal: with a company name and a search
\* key, one synthetic item is appended to web_content
\* the names _llm_company_extraction may return: None or '' (kept as ""),
\* or a name
CompanyNames == {"", "Acme"}

\* step 3 that appends the item whenever a search key is configured
enrich_without_name(files_in, info) ==
    IF info.tavily_api_key
    THEN [files_in EXCEPT !["web_content"] = @ + 1]
    ELSE files_in

\* step 3 of _analyze_files_internal
enrich(files_in, info) ==
    IF info.name # "" /\ info.tavily_api_key
    THEN [files_in EXCEPT !["web_content"] = @ + 1]
    ELSE files_in

company_extraction_done(name, tavily_api_key) ==
    /\ rpc = "extract" /\ ~RequestTimerDue
    /\ company_info' = [name |-> name, tavily_api_key |-> tavily_api_key]
    /\ categorized' = enrich(categorized, company_info')
    /\ rpc' = "launch"
    /\ UNCHANGED << overtaken, orch, launched, run, valid_results, now, launch_time,
                    agg_time, response >>
    /\ UNCHANGED << report, notOrchVars >>

\* agent_tasks is built and the gather starts every task
launch_agents(slow_set) ==
    /\ rpc = "launch" /\ ~RequestTimerDue
    /\ LET tasks == agent_tasks(CategoryOrder, categorized)
       IN  /\ launched' = tasks
           /\ slow_set \subseteq {tasks[i] : i \in 1..Len(tasks)}
           /\ run' = [c \in Categories |->
                        IF c \in {tasks[i] : i \in 1..Len(tasks)}
                        THEN [status |-> "running", slow |-> c \in slow_set,
                              result |-> NoResult]
                        ELSE run[c]]
    /\ launch_time' = now
    /\ rpc' = "gather"
    /\ UNCHANGED << overtaken, company_info, orch, categorized, valid_results,
                    now, agg_time, response >>
    /\ UNCHANGED << report, notOrchVars >>

\* one result record that every running task writes
finish_run_shared(runs, c, status, res) ==
    [d \in Categories |->
       IF runs[d].status = "running"
       THEN [runs[d] EXCEPT !.status = status, !.result = res]
       ELSE runs[d]]

\* the task of category c finishes: its own outcome is recorded
finish_run(runs, c, status, res) ==
    [runs EXCEPT ![c] = [@ EXCEPT !.status = status, !.result = res]]

\* the position of category c in agent_tasks
TaskIndex(c) == CHOOSE i \in 1..Len(launched) : launched[i] = c

\* the task of category c finishes while a task launched before it runs
overtakes(c) ==
    \E d \in Running : TaskIndex(d) < TaskIndex(c)

\* analyze() of category c returns by itself
run_returns(c, r) ==
    /\ rpc = "gather" /\ ~RequestTimerDue /\ ~RunTimerDue
    /\ c \in Running /\ ~run[c].slow
    /\ run' = finish_run(run, c, "returned", tag_result(c, r))
    /\ overtaken' = (overtaken \/ overtakes(c))
    /\ UNCHANGED << company_info, orch, rpc, categorized, launched,
                    valid_results, now, launch_time, agg_time, response >>
    /\ UNCHANGED << report, notOrchVars >>

\* the task of category c raises an exception analyze() does not catch
run_raises(c) ==
    /\ rpc = "gather" /\ ~RequestTimerDue /\ ~RunTimerDue
    /\ c \in Running
    /\ run' = finish_run(run, c, "raised", run[c].result)
    /\ overtaken' = (overtaken \/ overtakes(c))
    /\ UNCHANGED << company_info, orch, rpc, categorized, launched,
                    valid_results, now, launch_time, agg_time, response >>
    /\ UNCHANGED << report, notOrchVars >>

\* the timer of category c's analyze() fires: analyze returns the timeout result
run_times_out(c) ==
    /\ ~RequestTimerDue /\ RunTimerDue
    /\ c \in Running
    /\ run' = finish_run(run, c, "returned", tag_result(c, timeout_result))
    /\ overtaken' = (overtaken \/ overtakes(c))
    /\ UNCHANGED << company_info, orch, rpc, categorized, launched,
                    valid_results, now, launch_time, agg_time, response >>
    /\ UNCHANGED << report, notOrchVars >>

gather_returns_any_done == Running # Launched \/ Launched = {}

\* `await asyncio.gather(*agent_tasks, return_exceptions=True)` returns
gather_returns_all_done == Running = {}

\* the gather returns: valid_results is built and the aggregator is called
gather_done ==
    /\ rpc = "gather" /\ ~RequestTimerDue
    /\ gather_returns_all_done
    /\ valid_results' = filter_results(launched, run, << >>)
    /\ agg_time' = now
    /\ rpc' = "aggregate"
    /\ UNCHANGED << overtaken, company_info, orch, categorized, launched, run,
                    now, launch_time, response >>
    /\ UNCHANGED << report, notOrchVars >>

\* what aggregate_analyses makes of a synthesis that returned by itself, and
\* of one that timed out
AggregationOutcomes ==
    {attach_questions_and_scores(r, questions_ok) :
        r \in AnalyzeOutcomes, questions_ok \in BOOLEAN}
AggregationTimeouts ==
    {attach_questions_and_scores(timeout_result, questions_ok) :
        questions_ok \in BOOLEAN}

\* aggregate_analyses returns and the response is assembled
aggregate_done(aggregation_result) ==
    /\ rpc = "aggregate" /\ ~RequestTimerDue /\ ~AggTimerDue
    /\ response' = SuccessResponse(
                       update_metadata(valid_results, aggregation_result),
                       valid_results)
    /\ rpc' = "responded"
    /\ UNCHANGED << overtaken, company_info, orch, categorized, launched, run,
                    valid_results, now, launch_time, agg_time >>
    /\ UNCHANGED << report, notOrchVars >>

\* the aggregator's own analyze() times out
aggregate_times_out(aggregation_result) ==
    /\ ~RequestTimerDue /\ AggTimerDue
    /\ response' = SuccessResponse(
                       update_metadata(valid_results, aggregation_result),
                       valid_results)
    /\ rpc' = "responded"
    /\ UNCHANGED << overtaken, company_info, orch, categorized, launched, run,
                    valid_results, now, launch_time, agg_time >>
    /\ UNCHANGED << report, notOrchVars >>

\* analyze_files' wait_for fires: _analyze_files_internal is cancelled with
\* every task it awaits
request_times_out ==
    /\ RequestTimerDue
    /\ run' = [c \in Categories |->
                 IF run[c].status = "running"
                 THEN [run[c] EXCEPT !.status = "cancelled"] ELSE run[c]]
    /\ response' = TimeoutResponse
    /\ rpc' = "responded"
    /\ UNCHANGED << overtaken, company_info, orch, categorized, launched,
                    valid_results, now, launch_time, agg_time >>
    /\ UNCHANGED << report, notOrchVars >>

\* the request is suspended in an await
OrchAwaiting ==
    \/ rpc \in {"process", "extract"} /\ now < MaxSetupSeconds
    \/ rpc = "gather" /\ Running # {}
    \/ rpc = "aggregate"

\* time passes; a run that is not slow has returned before its timer expires
OrchTick ==
    /\ OrchAwaiting
    /\ ~RequestTimerDue /\ ~RunTimerDue /\ ~AggTimerDue
    /\ (rpc = "gather"
          /\ timer_expired(now + TickSeconds, launch_time, AGENT_TIMEOUT_SECONDS))
         => \A c \in Running : run[c].slow
    /\ now' = now + TickSeconds
    /\ UNCHANGED << overtaken, company_info, orch, rpc, categorized, launched,
                    run, valid_results, launch_time, agg_time, response >>
    /\ UNCHANGED << report, notOrchVars >>

-----------------------------------------------------------------------------
(* Values of the variables a specification does not use.                    *)

AgentIdle ==
    /\ content = [len |-> 0, blank |-> FALSE]
    /\ pc = "idle" /\ state = EmptyState
    /\ pending = 0 /\ map_done = 0 /\ map_stubs = 0 /\ summaries = << >>
    /\ reduce_inflight = FALSE
    /\ llm_calls = [map |-> 0, reduce |-> 0]
    /\ cancelled = 0 /\ result = NoResult /\ clock = 0

OrchIdle ==
    /\ orch = "none" /\ rpc = "idle"
    /\ categorized = [c \in Categories |-> 0]
    /\ launched = << >>
    /\ run = [c \in Categories |-> NoRun]
    /\ valid_results = << >>
    /\ now = 0 /\ launch_time = 0 /\ agg_time = 0
    /\ response = [kind |-> "none"]
    /\ report = [kind |-> "none"]
    /\ company_info = [kind |-> "none"] /\ overtaken = FALSE

FilesIdle ==
    /\ files = << >> /\ processed = << >>
    /\ cat_lists = [c \in Categories |-> << >>]
    /\ fpc = "idle"

ScoreIdle ==
    /\ agent_results = << >> /\ synthesis = [kind |-> "none"]
    /\ narrative = "" /\ aggregation = [kind |-> "none"]
    /\ scores = [kind |-> "none"]

QuestionsIdle ==
    /\ qpc = "idle" /\ qstate = [kind |-> "none"]
    /\ q_inflight = "" /\ q_calls = << >>
    /\ questions_result = [kind |-> "none"]

WebIdle ==
    /\ wpc = "idle" /\ web_docs = 0 /\ tavily_client = FALSE
    /\ wstate = [kind |-> "none"] /\ web_result = [kind |-> "none"]
    /\ web_search_performed = FALSE /\ web_response = [kind |-> "none"]

\* the basic orchestrator is called directly; the enhanced one directly
\* ("direct") or by the /analyze endpoint ("pending")
OrchInit ==
    /\ orch \in {"basic", "enhanced"}
    /\ rpc = "start"
    /\ categorized \in [Categories -> 0..1] \cup
          {[c \in Categories |->
              IF c = "pitch_deck" THEN MAX_FILES_PER_REQUEST + 1 ELSE 0]}
    /\ report \in {[kind |-> "direct"]} \cup
          (IF orch = "enhanced" THEN {[kind |-> "pending"]} ELSE {})
    /\ launched = << >>
    /\ run = [c \in Categories |-> NoRun]
    /\ valid_results = << >>
    /\ now = 0 /\ launch_time = 0 /\ agg_time = 0
    /\ response = [kind |-> "none"]
    /\ company_info = [kind |-> "none"] /\ overtaken = FALSE
    /\ AgentIdle /\ FilesIdle /\ ScoreIdle /\ QuestionsIdle /\ WebIdle

OrchNext ==
    \/ analyze_investment_rejects
    \/ analyze_files_start
    \/ analyze_files_rejects
    \/ internal_raises
    \/ analyze_investment_done
    \/ process_files_done
    \/ \E name \in CompanyNames, tavily_api_key \in BOOLEAN :
          company_extraction_done(name, tavily_api_key)
    \/ \E slow_set \in SUBSET AgentCategories : launch_agents(slow_set)
    \/ \E c \in Categories, r \in AnalyzeOutcomes : run_returns(c, r)
    \/ \E c \in Categories : run_raises(c)
    \/ \E c \in Categories : run_times_out(c)
    \/ gather_done
    \/ \E aggregation_result \in AggregationOutcomes :
          aggregate_done(aggregation_result)
    \/ \E aggregation_result \in AggregationTimeouts :
          aggregate_times_out(aggregation_result)
    \/ request_times_out
    \/ OrchTick

SpecOrch == OrchInit /\ [][OrchNext]_vars

-----------------------------------------------------------------------------
(* The contents the orchestrator hands to analyze(): the input of a         *)
(* category run and the aggregator's combined block.                        *)

\* the sequences over S of length at most n
RECURSIVE SeqsUpTo(_, _)
SeqsUpTo(S, n) ==
    IF n = 0 THEN {<< >>}
    ELSE LET shorter == SeqsUpTo(S, n - 1)
         IN  shorter \cup {Append(q, x) : q \in shorter, x \in S}

\* len("=== File: ") + len(" ===\n"), what _run_agent_analysis puts around
\* the file name in front of each document
FilePrefixLength == 15

\* the items of a category's list: a file name and the length of the
\* extracted text, 0 for an empty document
FileDataItems == [filename : {"", "a.pdf"}, content : {0, 5}]

\* the lists a category run is launched with (`category in self.agents and
\* file_data`: never the empty list)
FileDataLists == SeqsUpTo(FileDataItems, MaxFiles) \ {<< >>}

\* a joined text without the file headers
RECURSIVE run_input_length_contents_only(_)
run_input_length_contents_only(file_data_list) ==
    IF file_data_list = << >> THEN 0
    ELSE Head(file_data_list).content
           + (IF Tail(file_data_list) = << >> THEN 0
              ELSE 2 + run_input_length_contents_only(Tail(file_data_list)))

\* len(full_content) of _run_agent_analysis: the documents, each behind its
\* "=== File: <name> ===" line, joined by "\n\n"
RECURSIVE run_input_length(_)
run_input_length(file_data_list) ==
    IF file_data_list = << >> THEN 0
    ELSE FilePrefixLength + Len(Head(file_data_list).filename)
           + Head(file_data_list).content
           + (IF Tail(file_data_list) = << >> THEN 0
              ELSE 2 + run_input_length(Tail(file_data_list)))

\* the contents _run_agent_analysis calls agent.analyze with
RunInputs ==
    {[len |-> run_input_length(l), blank |-> FALSE] : l \in FileDataLists}

\* those of the lists whose documents are all empty
EmptyRunInputs ==
    {[len |-> run_input_length(l), blank |-> FALSE] :
       l \in {m \in FileDataLists : \A i \in 1..Len(m) : m[i].content = 0}}

\* the orchestrator's result lists: none, and a category result with the
\* entry of a task that raised
AgentResultLists ==
    {<< >>,
     << [agent |-> "pitch_deck", analysis |-> "final_summary",
         confidence |-> calculate_confidence([final_summary_length |-> 1000,
                                              num_chunks |-> 1]),
         has_error |-> FALSE, error |-> ""],
        [agent |-> "error", analysis |-> "Agent error",
         confidence |-> 0, has_error |-> FALSE, error |-> ""] >>}

\* len("\n\n" + "="*80 + "\n\n"), the head of combined_content
CombinedHeadLength == 84

\* what aggregate_analyses adds to combined_content for one result, besides
\* the agent name and the analysis: "**", " ANALYSIS** (Confidence: ",
\* the confidence with one decimal, ")\n", "\n\n", "="*80 and "\n\n"
CombinedEntryLength == 116

\* len(result["analysis"]): a summary of the length its confidence was
\* computed from, or the error text
analysis_length(r) ==
    IF r.analysis = "final_summary" THEN 1000 ELSE Len(r.analysis)

\* len(combined_content) for a list of results
RECURSIVE combined_content_length(_)
combined_content_length(results_in) ==
    IF results_in = << >> THEN CombinedHeadLength
    ELSE combined_content_length(Tail(results_in))
           + CombinedEntryLength + Len(Head(results_in).agent)
           + analysis_length(Head(results_in))

\* the contents aggregate_analyses calls self.analyze with
CombinedContents ==
    {[len |-> combined_content_length(l), blank |-> FALSE] :
       l \in AgentResultLists}

-----------------------------------------------------------------------------
(* The web_content run of a request of the enhanced orchestrator            *)
(* (EnhancedWebContentAgent), and what the response says of its searches.   *)
(* A list of search results is kept as its length.                          *)

\* what _extract_company_name returns
WebCompanyNames == {"Acme", "Unknown Company"}

\* the number of results a node's Tavily searches may return together
SearchCounts == {0, 2}

\* the metadata of the initial AgentState
InitialMetadata ==
    ("agent_type" :> "EnhancedWebContentAgent") @@ ("content_truncated" :> FALSE)

\* the metadata of analyze's timeout result
TimeoutMetadata ==
    ("agent_type" :> "EnhancedWebContentAgent")
      @@ ("timeout_seconds" :> AGENT_TIMEOUT_SECONDS) @@ ("status" :> "timeout")

\* the metadata of the result of analyze's `except Exception`
ExceptionMetadata == ("agent_type" :> "EnhancedWebContentAgent")

\* the nodes of the agent's workflow before chunk_text, and the base workflow
WebNodes == {"extract_company_info", "comprehensive_search",
             "competitive_analysis", "market_validation", "chunk_map_reduce"}

\* state["metadata"].get("company_info", {}).get("name", "")
company_name(metadata) ==
    IF "company_info" \in DOMAIN metadata
    THEN metadata["company_info"].name ELSE ""

\* the search results the run has stored in its state
SearchResultsOf(metadata) ==
    DictGet(metadata, "total_search_results", 0)
      + DictGet(metadata, "competitive_analysis", 0)
      + DictGet(metadata, "market_validation", 0)

\* agent_tasks holds no web_content task: the category has no item
web_run_skipped ==
    /\ wpc = "launch" /\ web_docs = 0
    /\ wpc' = "filter"
    /\ UNCHANGED << web_docs, tavily_client, wstate, web_result,
                    web_search_performed, web_response >>
    /\ UNCHANGED notWebVars

\* _run_agent_analysis calls agent.analyze, _analyze_internal builds the state
web_run_start ==
    /\ wpc = "launch" /\ web_docs > 0
    /\ wstate' = [kind |-> "state", metadata |-> InitialMetadata, error |-> ""]
    /\ wpc' = "extract_company_info"
    /\ UNCHANGED << web_docs, tavily_client, web_result,
                    web_search_performed, web_response >>
    /\ UNCHANGED notWebVars

\* _run_agent_analysis raises before analyze (add_metadata of LangSmith)
web_run_raises ==
    /\ wpc = "launch" /\ web_docs > 0
    /\ web_result' = [kind |-> "exception"]
    /\ wpc' = "filter"
    /\ UNCHANGED << web_docs, tavily_client, wstate,
                    web_search_performed, web_response >>
    /\ UNCHANGED notWebVars

\* _extract_company_info_node; raises: one of the extractions raised
extract_company_info_node(name, raises) ==
    /\ wpc = "extract_company_info"
    /\ wstate' =
         IF raises
         THEN [wstate EXCEPT !.error = "Error extracting company info"]
         ELSE [wstate EXCEPT !.metadata =
                 DictSet(@, "company_info",
                         [name |-> name, search_enabled |-> tavily_client])]
    /\ wpc' = "comprehensive_search"
    /\ UNCHANGED << web_docs, tavily_client, web_result,
                    web_search_performed, web_response >>
    /\ UNCHANGED notWebVars

\* _comprehensive_search_node; n: the results of all its searches
comprehensive_search_node(n) ==
    /\ wpc = "comprehensive_search"
    /\ wstate' =
         IF ~tavily_client
         THEN [wstate EXCEPT !.metadata =
                 DictSet(@, "web_search_results", "Tavily API not configured")]
         ELSE IF company_name(wstate.metadata) = "" THEN wstate
         ELSE [wstate EXCEPT !.metadata =
                 DictSet(DictSet(@, "search_results", n),
                         "total_search_results", n)]
    /\ wpc' = "competitive_analysis"
    /\ UNCHANGED << web_docs, tavily_client, web_result,
                    web_search_performed, web_response >>
    /\ UNCHANGED notWebVars

\* _competitive_analysis_node and _market_validation_node: the results of
\* the node's searches are stored under key
search_node(node, key, next, n) ==
    /\ wpc = node
    /\ wstate' =
         IF ~tavily_client THEN wstate
         ELSE [wstate EXCEPT !.metadata = DictSet(@, key, n)]
    /\ wpc' = next
    /\ UNCHANGED << web_docs, tavily_client, web_result,
                    web_search_performed, web_response >>
    /\ UNCHANGED notWebVars

competitive_analysis_node(n) ==
    search_node("competitive_analysis", "competitive_analysis",
                "market_validation", n)

market_validation_node(n) ==
    search_node("market_validation", "market_validation",
                "chunk_map_reduce", n)

\* chunk_text, map_chunks and reduce_summaries run and _analyze_internal
\* returns; failed: a node of the three set state["error"]
web_analyze_returns(failed) ==
    /\ wpc = "chunk_map_reduce"
    /\ LET error == IF failed THEN "Error in reduce phase" ELSE wstate.error
           metadata == IF failed THEN wstate.metadata
                       ELSE DictSet(wstate.metadata, "num_chunks", 1)
       IN  /\ wstate' = [wstate EXCEPT !.error = error, !.metadata = metadata]
           /\ web_result' = [kind |-> "result", agent |-> "",
                             has_error |-> error # "", metadata |-> metadata]
    /\ wpc' = "tag"
    /\ UNCHANGED << web_docs, tavily_client, web_search_performed, web_response >>
    /\ UNCHANGED notWebVars

\* analyze's wait_for fires while the workflow runs
web_analyze_times_out ==
    /\ wpc \in WebNodes
    /\ web_result' = [kind |-> "result", agent |-> "", has_error |-> TRUE,
                      metadata |-> TimeoutMetadata]
    /\ wpc' = "tag"
    /\ UNCHANGED << web_docs, tavily_client, wstate,
                    web_search_performed, web_response >>
    /\ UNCHANGED notWebVars

\* a search node raises outside its try blocks (formatting the results):
\* analyze's `except Exception` builds the result
web_analyze_raises ==
    /\ wpc \in {"comprehensive_search", "competitive_analysis",
                "market_validation"}
    /\ tavily_client
    /\ web_result' = [kind |-> "result", agent |-> "", has_error |-> TRUE,
                      metadata |-> ExceptionMetadata]
    /\ wpc' = "tag"
    /\ UNCHANGED << web_docs, tavily_client, wstate,
                    web_search_performed, web_response >>
    /\ UNCHANGED notWebVars

\* the tail of _run_agent_analysis: the result is tagged and its metadata
\* updated with combined_metadata
run_agent_analysis_returns ==
    /\ wpc = "tag"
    /\ web_result' =
         [web_result EXCEPT
            !.agent = "web_content",
            !.metadata = DictSet(DictSet(DictSet(@, "category", "web_content"),
                                         "files_count", web_docs),
                                 "files", web_docs)]
    /\ wpc' = "filter"
    /\ UNCHANGED << web_docs, tavily_client, wstate,
                    web_search_performed, web_response >>
    /\ UNCHANGED notWebVars

\* result.get("metadata", {}).get("web_results_count", 0) > 0
search_was_performed(entry) ==
    DictGet(entry.metadata, "web_results_count", 0) > 0

\* the loop over agent_results after the gather
web_filter_results ==
    /\ wpc = "filter"
    /\ IF web_result.kind = "none"
       THEN UNCHANGED << web_result, web_search_performed >>
       ELSE IF web_result.kind = "exception"
       THEN /\ web_result' = [kind |-> "result", agent |-> "error",
                              has_error |-> FALSE,
                              metadata |-> ("error" :> TRUE)]
            /\ UNCHANGED web_search_performed
       ELSE /\ web_search_performed' =
                 IF web_result.agent = "web_content"
                 THEN search_was_performed(web_result)
                 ELSE web_search_performed
            /\ UNCHANGED web_result
    /\ wpc' = "respond"
    /\ UNCHANGED << web_docs, tavily_client, wstate, web_response >>
    /\ UNCHANGED notWebVars

\* _analyze_files_internal returns its response
web_respond ==
    /\ wpc = "respond"
    /\ web_response' = [kind |-> "response", status |-> "ok",
                        search_performed |-> web_search_performed]
    /\ wpc' = "responded"
    /\ UNCHANGED << web_docs, tavily_client, wstate, web_result,
                    web_search_performed >>
    /\ UNCHANGED notWebVars

\* analyze_files' `except asyncio.TimeoutError` and `except Exception`
web_request_fails(status) ==
    /\ wpc \notin {"idle", "responded"}
    /\ web_response' = [kind |-> "response", status |-> status,
                        search_performed |-> FALSE]
    /\ wpc' = "responded"
    /\ UNCHANGED << web_docs, tavily_client, wstate, web_result,
                    web_search_performed >>
    /\ UNCHANGED notWebVars

WebInit ==
    /\ wpc = "launch" /\ web_docs \in 0..MaxFiles
    /\ tavily_client \in BOOLEAN
    /\ wstate = [kind |-> "none"] /\ web_result = [kind |-> "none"]
    /\ web_search_performed = FALSE /\ web_response = [kind |-> "none"]
    /\ AgentIdle /\ OrchIdle /\ FilesIdle /\ ScoreIdle /\ QuestionsIdle

WebNext ==
    \/ web_run_skipped
    \/ web_run_start
    \/ web_run_raises
    \/ \E name \in WebCompanyNames, raises \in BOOLEAN :
          extract_company_info_node(name, raises)
    \/ \E n \in SearchCounts : comprehensive_search_node(n)
    \/ \E n \in SearchCounts : competitive_analysis_node(n)
    \/ \E n \in SearchCounts : market_validation_node(n)
    \/ \E failed \in BOOLEAN : web_analyze_returns(failed)
    \/ web_analyze_times_out
    \/ web_analyze_raises
    \/ run_agent_analysis_returns
    \/ web_filter_results
    \/ web_respond
    \/ \E status \in {"timeout", "error"} : web_request_fails(status)

SpecWeb == WebInit /\ [][WebNext]_vars

-----------------------------------------------------------------------------
(* One analyze() invocation of a BaseAgent.                                 *)
AgentInit ==
    /\ content \in Contents \cup RunInputs \cup CombinedContents
    /\ pc = "init" /\ state = EmptyState
    /\ pending = 0 /\ map_done = 0 /\ map_stubs = 0 /\ summaries = << >>
    /\ reduce_inflight = FALSE
    /\ llm_calls = [map |-> 0, reduce |-> 0]
    /\ cancelled = 0 /\ result = NoResult /\ clock = 0
    /\ OrchIdle /\ FilesIdle /\ ScoreIdle /\ QuestionsIdle /\ WebIdle

AgentNext ==
    \/ analyze_internal_start
    \/ analyze_exception
    \/ \E fault \in ChunkFaults : chunk_text_node(fault)
    \/ map_chunks_start
    \/ \E i \in 0..MaxTrackedChunks, resp \in ChunkLens :
          summarize_chunk(i, resp)
    \/ \E fault \in BOOLEAN : map_chunks_finish(fault)
    \/ reduce_summaries_call
    \/ \E resp \in ReduceLens \cup {-1} : reduce_summaries_done(resp)
    \/ analyze_internal_return
    \/ analyze_timeout
    \/ AgentTick

SpecAgent == AgentInit /\ [][AgentNext]_vars

-----------------------------------------------------------------------------
(* File processing and categorisation of one request.                       *)
FilesInit ==
    /\ files \in SeqsUpTo(FileNames, MaxFiles)
    /\ processed = [i \in 1..Len(files) |-> Pending]
    /\ cat_lists = [c \in Categories |-> << >>]
    /\ fpc = "gather"
    /\ AgentIdle /\ OrchIdle /\ ScoreIdle /\ QuestionsIdle /\ WebIdle

FilesNext ==
    \/ \E i \in 1..MaxFiles + 1,
          outcome \in {"ok", "parse_error", "read_error"},
          content_type \in ContentTypes :
            process_single_file(i, outcome, content_type)
    \/ categorize_files

SpecFiles == FilesInit /\ [][FilesNext]_vars

-----------------------------------------------------------------------------
(* The scores of one synthesis narrative.                                   *)

\* the number of sentences of a narrative
MaxSentences == 2

Sentences ==
    << "Innovative, proprietary, patented, unique, differentiated and scalable platform with a network effect moat. ",
       "Data advantage, switching cost, brand, regulatory barrier and exclusive deals. ",
       "Revenue growth, customers, retention, engagement, viral testimonial, case study, MRR and ARR. ",
       "Profitable, positive cash, efficient, low burn, runway, unit economics. ",
       "No revenue, no customers, churn, declining, no traction. ",
       "High burn, no runway, cash crunch, unsustainable. ",
       "No moat, easily replicated commodity, no differentiation, me too, easily copied. ",
       "Seasoned founder with experience, track record, technical domain expert, previous exit, strong team, veteran. ",
       "First-time, inexperienced solo founder, no technical, team risk. ",
       "Large market, billion TAM, growing market, market opportunity, unmet need, pain point, urgent. ",
       "Small market, saturated, competitive, low barrier. ",
       "Summary: proprietary, TAM, veteran, runway, technical, case study, scalable, engagement, market opportunity, growing market, patent, founder, customers, experience, unique, seasoned, unit economics, strong team, track record, network effect, switching cost, previous exit, growth, innovative, efficient, urgent, revenue, pain point, MRR, low burn, large market, testimonial, retention, exclusive. ",
       "Highlights: engagement, customers, market opportunity, large market, domain expert, retention, seasoned, moat, differentiated, unit economics, technical, innovative, experience, exclusive, scalable. ",
       "The company has a Strong team and addresses a large market today. ",
       "It has a STRONG TEAM, a strong team indeed, in a large market, a Large Market. " >>

\* the texts made of at most n of the sentences i, i+1, ..., in this order
RECURSIVE NarrativesFrom(_, _)
NarrativesFrom(i, n) ==
    IF n = 0 \/ i > Len(Sentences) THEN {""}
    ELSE NarrativesFrom(i + 1, n)
           \cup {Sentences[i] \o t : t \in NarrativesFrom(i + 1, n - 1)}

Narratives(n) == NarrativesFrom(1, n)

\* what the aggregator's analyze() may return: a summary the reduce phase
\* accepted, or an error result
SynthesisOutcomes ==
    {[kind |-> "result", analysis |-> t,
      confidence |-> calculate_confidence([final_summary_length |-> Len(t),
                                           num_chunks |-> 1]),
      has_error |-> FALSE, error |-> ""] :
        t \in {x \in Narratives(MaxSentences) : Len(x) >= MinReduceResponse}}
    \cup
    {ErrorResult("Agent EnhancedAggregatorAgent exceeded 600s timeout",
                 "timeout"),
     ErrorResult("Error during analysis: LLM response too short",
                 "LLM response too short"),
     ErrorResult("Analysis completed but no summary generated",
                 "missing_final_summary")}

ScoreInit ==
    /\ agent_results \in AgentResultLists
    /\ synthesis \in SynthesisOutcomes
    /\ narrative = synthesis.analysis
    /\ aggregation = [kind |-> "none"]
    /\ scores = [kind |-> "none"]
    /\ AgentIdle /\ OrchIdle /\ FilesIdle /\ QuestionsIdle /\ WebIdle

ScoreNext == \E questions_ok \in BOOLEAN : attach_scores(questions_ok)

SpecScore == ScoreInit /\ [][ScoreNext]_vars

-----------------------------------------------------------------------------
(* The question generation of one aggregation.                              *)

\* what self.analyze returned to aggregate_analyses: a summary or an error
QuestionSyntheses ==
    {[kind |-> "result", analysis |-> Sentences[1] \o Sentences[2],
      confidence |-> calculate_confidence(
                       [final_summary_length
                          |-> Len(Sentences[1] \o Sentences[2]),
                        num_chunks |-> 1]),
      has_error |-> FALSE, error |-> ""],
     ErrorResult("Agent EnhancedAggregatorAgent exceeded 600s timeout",
                 "timeout")}

QuestionsInit ==
    /\ agent_results \in AgentResultLists
    /\ synthesis \in QuestionSyntheses
    /\ narrative = synthesis.analysis
    /\ aggregation = [kind |-> "none"]
    /\ scores = [kind |-> "none"]
    /\ qpc = "start" /\ qstate = [kind |-> "none"]
    /\ q_inflight = "" /\ q_calls = << >>
    /\ questions_result = [kind |-> "none"]
    /\ AgentIdle /\ OrchIdle /\ FilesIdle /\ WebIdle

QuestionsNext ==
    \/ generate_questions_start
    \/ generate_questions_raises
    \/ \E i \in 1..Len(QuestionNodes) : question_node_call(QuestionNodes[i])
    \/ \E i \in 1..Len(QuestionNodes), outcome \in NodeOutcomes :
          question_node_return(QuestionNodes[i], outcome)
    \/ generate_questions_return
    \/ aggregate_analyses_finish

SpecQuestions == QuestionsInit /\ [][QuestionsNext]_vars

-----------------------------------------------------------------------------
(* Claims about one analyze() invocation, checked under SpecAgent.          *)

AgentStep ==
    \/ analyze_internal_start
    \/ analyze_exception
    \/ \E fault \in ChunkFaults : chunk_text_node(fault)
    \/ map_chunks_start
    \/ \E i \in 0..MaxTrackedChunks, resp \in ChunkLens :
          summarize_chunk(i, resp)
    \/ \E fault \in BOOLEAN : map_chunks_finish(fault)
    \/ reduce_summaries_call
    \/ \E resp \in ReduceLens \cup {-1} : reduce_summaries_done(resp)
    \/ analyze_internal_return
    \/ analyze_timeout

Returned == pc = "returned"

\* C3: once AGENT_TIMEOUT_SECONDS have passed with the workflow unfinished,
\* analyze() can return and the only thing it does is return a result with
\* error "timeout" and confidence 0, with every in-flight inference call of
\* the workflow cancelled.
C3_TimeoutReturns ==
    /\ [](AgentTimerDue => ENABLED analyze_timeout)
    /\ [][AgentTimerDue =>
            /\ Returned'
            /\ result'.kind = "result"
            /\ result'.has_error /\ result'.error = "timeout"
            /\ result'.confidence = 0
            /\ pending' = 0 /\ ~reduce_inflight'
            /\ cancelled' = cancelled + pending
                              + (IF reduce_inflight THEN 1 ELSE 0)
            /\ llm_calls' = llm_calls]_vars

C3_Witness ==
    /\ Returned /\ result.kind = "result" /\ result.error = "timeout"
    /\ clock >= AGENT_TIMEOUT_SECONDS /\ cancelled > 1

\* C4: analyze() always returns a result record, never a raised exception, and
\* can always take a step until it has returned; the result carries an error
\* tag exactly when its confidence is 0 and its narrative is an error message
\* and not the final summary.
C4_NeverRaises ==
    /\ ~Returned => (result = NoResult /\ ENABLED AgentStep)
    /\ Returned =>
         /\ result.kind = "result"
         /\ result.has_error <=>
              (result.confidence = 0 /\ result.analysis # "final_summary")
         /\ result.has_error => result.analysis # "final_summary"
         /\ ~result.has_error => result.confidence # 0

C4_Witness ==
    /\ Returned /\ result.kind = "result"
    /\ result.has_error /\ result.error = "Error in reduce phase"
    /\ state.stub_summaries > 0

\* C5: every returned confidence lies in [0, 1]; a run that ends Done has
\* confidence clamp(0.1, 0.95, 0.6*min(1, L/1000) + 0.4*min(1, n/5)) for L the
\* length of the stored final summary and n the number of chunks kept.
C5_Clamp(x) ==
    IF 10 * x < ConfScale THEN ConfScale \div 10
    ELSE IF 100 * x > 95 * ConfScale THEN (95 * ConfScale) \div 100
    ELSE x

C5_Confidence ==
    (Returned /\ result.kind = "result") =>
        /\ 0 <= result.confidence /\ result.confidence <= ConfScale
        /\ ~result.has_error =>
             /\ result.confidence =
                  C5_Clamp((6 * ConfScale * Min(1000, state.final_summary))
                               \div 10000
                           + (4 * ConfScale * Min(5, Len(state.chunks))) \div 50)
             /\ 10 * result.confidence >= ConfScale
             /\ 100 * result.confidence <= 95 * ConfScale

C5_Witness ==
    /\ Returned /\ result.kind = "result" /\ ~result.has_error
    /\ state.final_summary >= 1000 /\ Len(state.chunks) >= 5
    /\ 100 * result.confidence = 95 * ConfScale

\* C6: a run never keeps more than MAX_CHUNKS chunks and never issues more
\* than MAX_CHUNKS chunk-map calls; when the splitter yields more, the first
\* MAX_CHUNKS chunks are the ones kept and chunks_truncated is set.
C6_ChunkLimit ==
    /\ Len(state.chunks) <= MAX_CHUNKS
    /\ llm_calls.map <= MAX_CHUNKS
    /\ pending + map_done <= MAX_CHUNKS
    /\ state.metadata.num_chunks # -1 =>
         /\ state.metadata.num_chunks = Len(state.chunks)
         /\ split_count(state.raw_text, state.blank) > MAX_CHUNKS
               <=> state.metadata.chunks_truncated
         /\ ~state.metadata.chunks_truncated
               => Len(state.chunks) = split_count(state.raw_text, state.blank)
    /\ state.metadata.chunks_truncated =>
         /\ state.chunks = [i \in 1..MAX_CHUNKS |-> i]
         /\ pc # "map_chunks" => llm_calls.map = MAX_CHUNKS

C6_Witness ==
    /\ state.metadata.chunks_truncated
    /\ split_count(state.raw_text, state.blank) > MAX_CHUNKS
    /\ llm_calls.map = MAX_CHUNKS /\ map_done = MAX_CHUNKS
    /\ pc = "reduce_wait"

\* C7: content shorter than MIN_CONTENT_LENGTH ends at once with error
\* content_too_short and confidence 0, without chunking and without any
\* inference call; content of MIN_CONTENT_LENGTH characters or more is never
\* rejected as too short.
C7_TooShort ==
    /\ (content.len < MIN_CONTENT_LENGTH /\ pc # "init") =>
         /\ Returned /\ result.kind = "result"
         /\ result.has_error /\ result.error = "content_too_short"
         /\ result.confidence = 0
         /\ state = EmptyState
         /\ llm_calls = [map |-> 0, reduce |-> 0]
         /\ clock = 0
    /\ (content.len >= MIN_CONTENT_LENGTH /\ pc # "init") =>
         /\ state.raw_text >= MIN_CONTENT_LENGTH
         /\ Returned => (result.kind = "result"
                           => result.error # "content_too_short")

C7_Witness ==
    /\ Returned /\ content.len = MIN_CONTENT_LENGTH - 1
    /\ result.kind = "result" /\ result.error = "content_too_short"

-----------------------------------------------------------------------------
(* Claims about the orchestrators, checked under SpecOrch.                  *)

Raised == {c \in Launched : run[c].status = "raised"}

\* the gather over the category runs has returned
GatherDone ==
    \/ rpc = "aggregate"
    \/ rpc = "responded" /\ response.kind = "response" /\ response.status = "ok"

\* C1: when exactly one launched category run raised and the others returned,
\* the orchestrator's result list has one entry per launched category, in
\* launch order: the unchanged result of every category that returned and an
\* entry with agent "error", confidence 0 and an "Agent error" narrative for
\* the one that raised; the orchestrator returns a response with that list.
C1_ErrorEntry ==
    (GatherDone /\ Cardinality(Raised) = 1) =>
        /\ Len(valid_results) = Len(launched)
        /\ \A i \in 1..Len(launched) :
             /\ i <= Len(valid_results)
             /\ IF launched[i] \in Raised
                THEN /\ valid_results[i].agent = "error"
                     /\ valid_results[i].confidence = 0
                     /\ valid_results[i].analysis = "Agent error"
                ELSE /\ run[launched[i]].status = "returned"
                     /\ valid_results[i] = run[launched[i]].result
                     /\ valid_results[i].agent = launched[i]
        /\ rpc = "responded" =>
             /\ response.kind = "response"
             /\ response.agent_analyses = valid_results
             /\ response.agents_used = Len(launched)

C1_Witness ==
    /\ rpc = "responded" /\ response.kind = "response" /\ response.status = "ok"
    /\ Cardinality(Raised) = 1 /\ Len(launched) = 3
    /\ Len(response.agent_analyses) = 3
    /\ \E i \in 1..3 : response.agent_analyses[i].agent = "error"
    /\ \E i \in 1..3 : ~response.agent_analyses[i].has_error
                         /\ response.agent_analyses[i].agent = launched[i]

\* a category run whose workflow needs longer than AGENT_TIMEOUT_SECONDS
SlowRuns == {c \in Launched : run[c].slow /\ run[c].status # "raised"}

\* C2: when one category's analyze() needs longer than its 600 s timeout and
\* every other launched category completes, the response of the request
\* holds the completed result of every other category and a result with
\* error "timeout" and confidence 0 for the slow one: the request as a whole
\* is not cancelled.
C2_TimeoutIsolated ==
    (rpc = "responded" /\ Cardinality(SlowRuns) = 1
       /\ Launched \ SlowRuns # {}
       /\ \A c \in Launched \ SlowRuns : run[c].status = "returned") =>
        /\ response.kind = "response"
        /\ Len(response.agent_analyses) = Len(launched)
        /\ \A i \in 1..Len(launched) :
             /\ i <= Len(response.agent_analyses)
             /\ IF launched[i] \in SlowRuns
                THEN /\ response.agent_analyses[i].agent = launched[i]
                     /\ response.agent_analyses[i].error = "timeout"
                     /\ response.agent_analyses[i].confidence = 0
                ELSE response.agent_analyses[i] = run[launched[i]].result

-----------------------------------------------------------------------------
(* Claims about file processing and categorisation (SpecFiles).             *)

\* how often document i occurs in the category lists
Occurrences(i) ==
    LET in_list(c) ==
            Cardinality({k \in 1..Len(cat_lists[c]) : cat_lists[c][k] = i})
    IN  in_list("pitch_deck") + in_list("data_room") + in_list("web_content")
          + in_list("interaction") + in_list("general")

ListSizes ==
    Len(cat_lists["pitch_deck"]) + Len(cat_lists["data_room"])
      + Len(cat_lists["web_content"]) + Len(cat_lists["interaction"])
      + Len(cat_lists["general"])

\* C8: after _process_and_categorize_files every uploaded document is in
\* exactly one category list, once, and the sizes of the category lists add
\* up to the number of documents, also when the text extraction of a
\* document faults.
C8_Partition ==
    fpc = "done" =>
        /\ \A i \in 1..Len(files) : Occurrences(i) = 1
        /\ ListSizes = Len(files)

\* what the code does keep: a document is in exactly one list unless its
\* task raised, and then it is in none
DroppedOnlyWhenRaised ==
    fpc = "done" =>
        /\ \A i \in 1..Len(files) :
             Occurrences(i) = IF processed[i].kind = "exception" THEN 0 ELSE 1
        /\ ListSizes = Cardinality({i \in 1..Len(files) :
                                      processed[i].kind = "result"})

KeywordGroups ==
    << [category |-> "pitch_deck",
        keywords |-> {"pitch", "deck", "presentation", "slides"}],
       [category |-> "data_room",
        keywords |-> {"financial", "traction", "metrics", "kpi", "revenue",
                      "onepager", "one-pager"}],
       [category |-> "web_content",
        keywords |-> {"website", "landing", "blog", "faq", "web", "content"}],
       [category |-> "interaction",
        keywords |-> {"call", "recording", "transcript", "interview",
                      "questionnaire", "feedback"}] >>

ExtensionDefaults ==
    << [category |-> "pitch_deck", endings |-> {".pdf", ".pptx", ".key"}],
       [category |-> "data_room", endings |-> {".xlsx", ".xls", ".csv"}],
       [category |-> "web_content", endings |-> {".txt", ".md", ".json"}] >>

KeywordMatches(name) ==
    {g \in 1..Len(KeywordGroups) : AnyIn(KeywordGroups[g].keywords, Lower(name))}

ExtensionMatches(name) ==
    {e \in 1..Len(ExtensionDefaults) :
       AnyEnd(ExtensionDefaults[e].endings, Lower(name))}

First(S) == CHOOSE k \in S : \A j \in S : k <= j

\* C20: a file whose lower-cased name contains a key word gets the category
\* of the first key word group that matches, in the order pitch_deck,
\* data_room, web_content, interaction, whatever its extension; a file
\* without key word gets the default of its extension; a file with neither
\* gets general.
C20_KeywordFirst ==
    fpc = "done" =>
        \A i \in 1..Len(files) :
            processed[i].kind = "result" =>
                LET name == processed[i].filename
                    category == processed[i].category
                IN  IF KeywordMatches(name) # {}
                    THEN category
                           = KeywordGroups[First(KeywordMatches(name))].category
                    ELSE IF ExtensionMatches(name) # {}
                    THEN category
                           = ExtensionDefaults[First(ExtensionMatches(name))]
                               .category
                    ELSE category = "general"

\* a request with a name whose key word and extension point to different
\* categories, and a name with key words of two groups
C20_Witness ==
    /\ fpc = "done" /\ Len(files) = 2
    /\ processed[1].kind = "result" /\ processed[1].filename = "blog.csv"
    /\ processed[1].category = "web_content"
    /\ processed[2].kind = "result" /\ processed[2].filename = "Deck_kpi"
    /\ processed[2].category = "pitch_deck"

-----------------------------------------------------------------------------
(* Claims about the investment scores (SpecScore).                          *)

\* C10: for every synthesis narrative each of the six scores is within
\* [0, 100], the weights add up to exactly 1.0, and the overall score is the
\* weighted sum of the six scores and is within [0, 100].
C10_ScoreRange ==
    scores.kind = "scores" =>
        /\ \A n \in ScoreNames : scores.score[n] \in 0..100
        /\ weighted_sum([n \in ScoreNames |-> 1], scores.weights) = WeightScale
        /\ scores.overall_weighted = weighted_sum(scores.score, scores.weights)
        /\ scores.overall_weighted >= 0
        /\ scores.overall_weighted <= 100 * WeightScale

\* scores of a narrative whose product signals add up to more than 100 and
\* whose traction signals add up to less than 0
C10_Witness ==
    /\ scores.kind = "scores"
    /\ product_points(Lower(narrative)) > 100 /\ scores.score.product = 100
    /\ traction_points(Lower(narrative)) < 0 /\ scores.score.traction = 0

-----------------------------------------------------------------------------
\* C11: the recommendation is fixed by the reported overall score: at least
\* 75 gives "Strong Buy", at least 60 and below 75 "Buy", at least 45 and
\* below 60 "Hold", below 45 "Pass".
C11_Recommendation ==
    scores.kind = "scores" =>
        LET overall == scores.overall_weighted
        IN  /\ overall >= 75 * WeightScale
                => scores.recommendation = "Strong Buy"
            /\ (60 * WeightScale <= overall /\ overall < 75 * WeightScale)
                => scores.recommendation = "Buy"
            /\ (45 * WeightScale <= overall /\ overall < 60 * WeightScale)
                => scores.recommendation = "Hold"
            /\ overall < 45 * WeightScale
                => scores.recommendation = "Pass"

\* a narrative whose overall score is exactly 75
C11_Witness ==
    /\ scores.kind = "scores"
    /\ scores.overall_weighted = 75 * WeightScale
    /\ scores.recommendation = "Strong Buy"

\* overall scores of exactly 80, 60, 50, 45 and 30 with their labels
C11_Eighty == scores.kind = "scores" /\ scores.overall_weighted = 80 * WeightScale
C11_Sixty  == scores.kind = "scores" /\ scores.overall_weighted = 60 * WeightScale
C11_Fifty  == scores.kind = "scores" /\ scores.overall_weighted = 50 * WeightScale
C11_FortyFive == scores.kind = "scores" /\ scores.overall_weighted = 45 * WeightScale
C11_Thirty == scores.kind = "scores" /\ scores.overall_weighted = 30 * WeightScale

-----------------------------------------------------------------------------
\* C12: each of the six scores is its base plus the points of the signals of
\* its dimension that occur in the lower-cased narrative, clamped to
\* [0, 100]; a signal counts once however often it occurs, so the narrative
\* written twice has the scores of the narrative; a narrative whose only
\* signals are "strong team" and "large market" has Team 45, Market 50 and
\* every other score at its base.
C12_Clamp(x) == IF x < 0 THEN 0 ELSE IF x > 100 THEN 100 ELSE x

C12_SignalScores ==
    scores.kind = "scores" =>
        LET text == Lower(narrative)
        IN  /\ scores.score.team = C12_Clamp(team_points(text))
            /\ scores.score.market = C12_Clamp(market_points(text))
            /\ scores.score.product = C12_Clamp(product_points(text))
            /\ scores.score.traction = C12_Clamp(traction_points(text))
            /\ scores.score.financials = C12_Clamp(financials_points(text))
            /\ scores.score.moat = C12_Clamp(moat_points(text))
            /\ calculate_investment_scores(narrative \o narrative).score
                 = scores.score
            /\ narrative \in
                 {"The company has a Strong team and addresses a large market today. ",
                  "It has a STRONG TEAM, a strong team indeed, in a large market, a Large Market. "}
                 => scores.score = [team |-> 45, market |-> 50, product |-> 40,
                                    traction |-> 30, financials |-> 40,
                                    moat |-> 30]

\* the scores of the narrative that names the two signals twice
C12_Witness ==
    /\ narrative = "It has a STRONG TEAM, a strong team indeed, in a large market, a Large Market. "
    /\ scores.kind = "scores"
    /\ scores.score.team = 45 /\ scores.score.market = 50

-----------------------------------------------------------------------------
(* Claims about the request boundary (SpecOrch).                            *)

\* the request of the enhanced orchestrator ended in a request-level failure:
\* its timeout, an exception of _analyze_files_internal, or a refused input
RequestFailed ==
    /\ orch = "enhanced" /\ rpc \in {"responded", "reported"}
    /\ response.kind # "none"
    /\ \/ response.kind = "raised"
       \/ response.kind = "response" /\ response.status \in {"timeout", "error"}

\* C13: every request-level failure of analyze_files (request timeout,
\* uncaught exception, more than MAX_FILES_PER_REQUEST files) returns a
\* response of the shape of a successful one, with an error field and with
\* scores that hold the six dimensions, the overall score, the weights and
\* the recommendation, all scores zero; no exception leaves analyze_files.
C13_UniformFailure ==
    RequestFailed =>
        IF response.kind # "response" THEN FALSE
        ELSE /\ response.final_summary.has_error
             /\ IF response.investment_scores.kind # "scores" THEN FALSE
                ELSE /\ \A n \in ScoreNames :
                          response.investment_scores.score[n] = 0
                     /\ response.investment_scores.overall_weighted = 0
                     /\ response.investment_scores.weights = weights
                     /\ response.investment_scores.recommendation = "Pass"

\* what does hold: a request timeout and an exception inside the try block
\* give a response with an error field and an empty scores dict; too many
\* files leave analyze_files as a ValueError
FailureShape ==
    RequestFailed =>
        IF response.kind = "raised"
        THEN response.exception = "ValueError"
                /\ FileCount > MAX_FILES_PER_REQUEST
        ELSE /\ response.final_summary.has_error
             /\ response.final_summary.confidence = 0
             /\ response.investment_scores = EmptyScores
             /\ response.agent_analyses = << >>

\* C14: the report of the /analyze endpoint has status "success" only when
\* the analysis succeeded; when the orchestration timed out or failed the
\* report carries a failure status with a message.
C14_ReportStatus ==
    (rpc = "reported" /\ response.kind # "none") =>
        IF response.kind = "response" /\ response.status = "ok"
        THEN report.kind = "report" /\ report.status = "success"
        ELSE \/ report.kind = "http_error"
             \/ report.kind = "report" /\ report.status # "success"

\* what does hold: every response analyze_files returns, the timeout and the
\* error response included, is reported with status "success"; only an
\* exception gives an HTTP error
ReportOfResponse ==
    (rpc = "reported" /\ response.kind # "none") =>
        IF response.kind = "response"
        THEN report.kind = "report" /\ report.status = "success"
        ELSE report.kind = "http_error" /\ report.status_code = 500

-----------------------------------------------------------------------------
\* C15: for every list of category results, error entries included, and also
\* when the synthesis run ends with an error or question generation raises,
\* the result of aggregate_analyses holds a scores record with the six
\* dimensions, overall_weighted, the weights and a recommendation.
C15_ScoresAlways ==
    aggregation.kind = "result" =>
        IF aggregation.scores.kind # "scores" THEN FALSE
        ELSE /\ DOMAIN aggregation.scores.score = ScoreNames
             /\ \A n \in ScoreNames : aggregation.scores.score[n] \in 0..100
             /\ aggregation.scores.overall_weighted =
                  weighted_sum(aggregation.scores.score, weights)
             /\ aggregation.scores.weights = weights
             /\ aggregation.scores.recommendation \in
                  {"Strong Buy", "Buy", "Hold", "Pass"}
             /\ aggregation.total_analyses = Len(agent_results)

\* the synthesis timed out, question generation raised and one category
\* result is an error entry: the result has scores
C15_Witness ==
    /\ aggregation.kind = "result"
    /\ synthesis.has_error /\ synthesis.error = "timeout"
    /\ aggregation.founder_questions = ""
    /\ \E i \in 1..Len(agent_results) : agent_results[i].agent = "error"
    /\ aggregation.scores.kind = "scores"

-----------------------------------------------------------------------------
(* The map and reduce phases of one agent run.                              *)

MapPhaseOver == pc \in {"reduce_summaries", "reduce_wait", "end"}

StubSlots(list) == {i \in 1..Len(list) : list[i].stub}

\* C16: the Mapping phase issues exactly one inference call per chunk; when
\* it is over the reduce phase has one summary per chunk, the summary of
\* chunk i at position i whatever the order in which the calls returned, an
\* error stub standing for each call that raised or returned an empty or too
\* short response; and failed chunks set no error: after the map phase of a
\* run with chunks the state's error is empty unless a node itself failed.
C16_MapPhase ==
    /\ pc = "map_wait" =>
         /\ llm_calls.map = Len(state.chunks)
         /\ pending + map_done = Len(state.chunks)
    /\ MapPhaseOver =>
         /\ llm_calls.map = Len(state.chunks)
         /\ state.chunk_summaries = Len(state.chunks)
         /\ state.stub_summaries <= state.chunk_summaries
         /\ Tracked(state) =>
              /\ Len(state.summary_list) = Len(state.chunks)
              /\ \A i \in 1..Len(state.chunks) :
                   state.summary_list[i].chunk = state.chunks[i]
              /\ Cardinality(StubSlots(state.summary_list))
                   = state.stub_summaries
    /\ (pc = "reduce_summaries" /\ state.chunks # << >>) =>
         state.error \in {"", "Error chunking text", "Error in map phase"}

\* every chunk of a two-chunk run failed, and the run ended Done
C16_Witness ==
    /\ Returned /\ result.kind = "result" /\ ~result.has_error
    /\ Len(state.chunks) = 2 /\ llm_calls.map = 2
    /\ state.stub_summaries = 2
    /\ StubSlots(state.summary_list) = {1, 2}

\* the errors _reduce_summaries_node sets
ReduceErrors == {"Error in reduce phase",
                 "LLM returned empty response in reduce phase",
                 "LLM response too short"}

\* the run went through the whole workflow and _analyze_internal returned
WorkflowReturned ==
    /\ Returned /\ result.kind = "result"
    /\ result.error \notin {"timeout", "content_too_short", "exception"}

C17_TooShort ==
    /\ WorkflowReturned /\ result.error = "LLM response too short"
    /\ state.final_summary = 0

\* the edges of the workflow graph, with the steps inside the map and reduce
\* nodes; analyze() can return from every position
WorkflowEdges ==
    { << "init", "chunk_text" >>, << "chunk_text", "map_chunks" >>,
      << "map_chunks", "map_wait" >>, << "map_wait", "reduce_summaries" >>,
      << "reduce_summaries", "reduce_wait" >>, << "reduce_wait", "end" >> }

PhaseStep ==
    /\ pc' # pc => (<< pc, pc' >> \in WorkflowEdges \/ pc' = "returned")
    /\ state'.chunks # state.chunks => pc = "chunk_text"
    /\ llm_calls'.map # llm_calls.map =>
         /\ pc = "map_chunks" /\ llm_calls.reduce = 0
         /\ llm_calls.map = 0
    /\ llm_calls'.reduce # llm_calls.reduce =>
         /\ pc = "reduce_summaries"
         /\ pending = 0 /\ map_done = llm_calls.map
         /\ state.chunk_summaries = Len(state.chunks)

Barrier ==
    /\ pending > 0 => (pc = "map_wait" /\ llm_calls.reduce = 0)
    /\ llm_calls.reduce > 0 =>
         /\ pending = 0 /\ map_done = llm_calls.map
         /\ llm_calls.map = Len(state.chunks)
    /\ llm_calls.map > 0 => state.chunks # << >>

\* C18: a run passes through chunking, mapping and reducing in this order,
\* and the reduce inference call is issued only when every chunk call of the
\* run has returned, in whatever order and at whatever times they return.
C18_Barrier == [][PhaseStep]_vars /\ []Barrier

\* the reduce call is in flight after MAX_CHUNKS chunk calls, some of them
\* failed, have returned one by one while time passed
C18_Witness ==
    /\ pc = "reduce_wait" /\ reduce_inflight
    /\ map_done = MAX_CHUNKS /\ llm_calls.map = MAX_CHUNKS
    /\ map_stubs > 0 /\ map_stubs < MAX_CHUNKS
    /\ clock > 0

\* the chunking node has run and left no chunks: the splitter produced none,
\* or split_text raised
ChunkingFailed ==
    /\ \/ pc \in {"map_chunks", "map_wait", "reduce_summaries",
                  "reduce_wait", "end"}
       \/ WorkflowReturned
    /\ state.chunks = << >>

ChunkingErrors == {"No text chunks produced", "Error chunking text"}

\* C19: after a run's chunking left no chunks no inference call is issued,
\* for the map or for the reduce, and the run returns a result whose error
\* is the chunking error and whose confidence is 0.
C19_NoChunks ==
    ChunkingFailed =>
      /\ llm_calls = [map |-> 0, reduce |-> 0]
      /\ WorkflowReturned =>
           /\ result.has_error /\ result.confidence = 0
           /\ result.error \in ChunkingErrors

\* what the code does after such a chunking: no chunk call, one reduce call,
\* and a result with confidence 0 and an error that is the reduce error
\* whenever the reduce response was not accepted
NoChunksOutcome ==
    ChunkingFailed =>
      /\ llm_calls.map = 0
      /\ pc \in {"reduce_wait", "end"} => llm_calls.reduce = 1
      /\ WorkflowReturned =>
           /\ llm_calls.reduce = 1
           /\ result.has_error /\ result.confidence = 0
           /\ result.error \in ChunkingErrors \cup ReduceErrors
                                 \cup {"Error in map phase"}
           /\ result.error \in ReduceErrors <=> state.final_summary = 0

\* blank content: no chunks, a reduce call, and the reduce error as the tag
NoChunksReduceError ==
    /\ WorkflowReturned /\ content.blank /\ state.chunks = << >>
    /\ llm_calls.reduce = 1
    /\ result.error = "LLM response too short"

-----------------------------------------------------------------------------
(* Claims about the question generation (SpecQuestions).                    *)

NodeSet == {QuestionNodes[i] : i \in 1..Len(QuestionNodes)}

\* the workflow of the question generator ran to its END
QuestionWorkflowDone ==
    \/ qpc = "END"
    \/ qpc \in {"returned", "attached"} /\ questions_result.kind # "raised"

\* C21: the nodes of the question workflow issue their inference calls in the
\* order gaps, domain, alignment, risk, compile, each node at most once, and
\* a node's call is issued only when the call of the node before it has
\* returned or raised: at most one call is in flight, that of the node the
\* workflow is at.
C21_Sequential ==
    /\ Len(q_calls) <= Len(QuestionNodes)
    /\ \A i \in 1..Len(q_calls) : q_calls[i] = QuestionNodes[i]
    /\ q_inflight # "" =>
         /\ q_calls # << >> /\ q_inflight = q_calls[Len(q_calls)]
         /\ qpc = q_inflight
    /\ qpc \in NodeSet =>
         Len(q_calls) = NodeIndex(qpc) - (IF q_inflight = "" THEN 1 ELSE 0)
    /\ QuestionWorkflowDone => (q_calls = QuestionNodes /\ q_inflight = "")

\* all five nodes have run in order although the first one failed
C21_Witness ==
    /\ qpc = "attached" /\ q_calls = QuestionNodes
    /\ questions_result.kind = "error"
    /\ questions_result.error = "Error analyzing gaps"

\* the compile node stored its response
Compiled == "questions_generated" \in DOMAIN qstate.metadata

\* the aggregation is complete, a node before the compile node had failed
\* and the compile node succeeded
NonCompileFailure ==
    /\ qpc = "attached" /\ questions_result.kind # "raised"
    /\ Compiled /\ qstate.error # ""

\* the question categories as the workflow's final metadata holds them
CategoriesOf(s) ==
    [kind |-> "categories",
     domain |-> DictGet(s.metadata, "domain_questions", ""),
     alignment |-> DictGet(s.metadata, "alignment_questions", ""),
     risk |-> DictGet(s.metadata, "risk_questions", "")]

\* C22: when the gaps, domain, alignment or risk node failed and the compile
\* node succeeded, all five nodes ran, the failed node contributed the empty
\* string, and the aggregation's founder questions are the compiled guide,
\* with the categories and gaps the other nodes produced.
C22_StageFailureLocal ==
    NonCompileFailure =>
      /\ q_calls = QuestionNodes
      /\ aggregation.founder_questions = qstate.final_summary
      /\ aggregation.question_categories = CategoriesOf(qstate)
      /\ aggregation.identified_gaps
           = DictGet(qstate.metadata, "identified_gaps", "")

\* what the code does then: the later nodes run and the failed node's key is
\* absent, but the questions are the error message of the last failed node
\* and the categories and gaps are dropped
StageFailureOutcome ==
    NonCompileFailure =>
      /\ q_calls = QuestionNodes
      /\ \E i \in 1..Len(QuestionNodes) - 1 :
           /\ qstate.error = node_error(QuestionNodes[i])
           /\ metadata_key(QuestionNodes[i]) \notin DOMAIN qstate.metadata
      /\ aggregation.founder_questions
           = "Error generating questions: " \o qstate.error
      /\ aggregation.question_categories = NoCategories
      /\ aggregation.identified_gaps = ""
      /\ aggregation.scores.kind = "scores"

\* only the gaps node failed; the compiled guide exists and is not reported
StageFailureReported ==
    /\ NonCompileFailure /\ qstate.error = "Error analyzing gaps"
    /\ qstate.final_summary = "response of compile_questions"
    /\ DictGet(qstate.metadata, "domain_questions", "")
         = "response of generate_domain_questions"
    /\ aggregation.founder_questions
         = "Error generating questions: Error analyzing gaps"

\* the aggregation is complete and the compile node had failed
CompileFailure ==
    /\ qpc = "attached" /\ questions_result.kind # "raised"
    /\ qstate.error = "Error compiling questions"

\* C23: when the compile node failed, the aggregation has empty founder
\* questions and empty gaps, and it still has the synthesis narrative and
\* the investment scores.
C23_CompileFailure ==
    CompileFailure =>
      /\ aggregation.founder_questions = ""
      /\ aggregation.identified_gaps = ""
      /\ aggregation.analysis = synthesis.analysis
      /\ aggregation.scores = calculate_investment_scores(synthesis.analysis)

\* what the code does then: gaps and categories are empty, narrative and
\* scores are there, and the founder questions are an error message
CompileFailureOutcome ==
    CompileFailure =>
      /\ aggregation.founder_questions
           = "Error generating questions: Error compiling questions"
      /\ aggregation.identified_gaps = ""
      /\ aggregation.question_categories = NoCategories
      /\ aggregation.analysis = synthesis.analysis
      /\ aggregation.scores = calculate_investment_scores(synthesis.analysis)

\* the four nodes before the compile node succeeded, the compile node failed
CompileFailureReported ==
    /\ CompileFailure /\ ~synthesis.has_error
    /\ DictGet(qstate.metadata, "identified_gaps", "")
         = "response of analyze_gaps"
    /\ aggregation.founder_questions # ""
    /\ aggregation.scores.kind = "scores"

\* the founder questions are empty only when the question generator raised
\* or the compile node stored an empty response
EmptyQuestions ==
    (qpc = "attached" /\ aggregation.founder_questions = "") =>
       \/ questions_result.kind = "raised"
       \/ questions_result.kind = "questions" /\ qstate.final_summary = ""

-----------------------------------------------------------------------------
(* Further claims about the enhanced orchestrator (SpecOrch).               *)

\* the step from company extraction to the launch of the category runs
EnrichStep ==
    (rpc = "extract" /\ rpc' = "launch") =>
       IF company_info'.name # "" /\ company_info'.tavily_api_key
       THEN /\ categorized'["web_content"] = categorized["web_content"] + 1
            /\ \A c \in Categories \ {"web_content"} :
                 categorized'[c] = categorized[c]
       ELSE categorized' = categorized

\* the launched runs are those of the agent categories that have an item
LaunchedAsCategorized ==
    (orch = "enhanced" /\ rpc \in {"gather", "aggregate"}) =>
       Launched = {c \in AgentCategories : categorized[c] > 0}

\* C24: the company information changes the inputs of the category runs in
\* one way only: with a name and a configured search key one item is added
\* to web_content and every other category keeps its items; without a name
\* (or without key) every category keeps its items; and the runs launched are
\* those of the categories that then have items.
C24_Enrichment == [][EnrichStep]_vars /\ []LaunchedAsCategorized

\* a name was extracted: web_content runs on an uploaded and the added item,
\* next to a pitch deck run
C24_Witness ==
    /\ orch = "enhanced" /\ rpc = "gather"
    /\ company_info.name = "Acme" /\ company_info.tavily_api_key
    /\ categorized["web_content"] = 2 /\ categorized["pitch_deck"] = 1
    /\ Launched = {"pitch_deck", "web_content"}

\* no name was extracted: no web_content run without an uploaded web document
NoNameNoRun ==
    /\ orch = "enhanced" /\ rpc = "gather"
    /\ company_info.name = "" /\ company_info.tavily_api_key
    /\ categorized["web_content"] = 0 /\ "web_content" \notin Launched

\* the entry of valid_results that stands for the task launched i-th
EntryOf(i) ==
    IF run[launched[i]].status = "raised" THEN error_entry(<< >>)[1]
    ELSE run[launched[i]].result

\* C25: the aggregator is called only when every launched category run has
\* finished, and what it receives is determined by the launch order and the
\* outcome of each run alone: the i-th entry is the result of the i-th
\* launched category, tagged with that category (or the error entry if its
\* task raised), in whatever order the runs finished; the response lists the
\* same entries.
C25_OrderIndependent ==
    GatherDone =>
      /\ Running = {}
      /\ \A c \in Launched : run[c].status \in {"returned", "raised"}
      /\ Len(valid_results) = Len(launched)
      /\ \A i \in 1..Len(launched) :
           /\ valid_results[i] = EntryOf(i)
           /\ valid_results[i].agent \in {launched[i], "error"}
           /\ run[launched[i]].status = "returned"
                => valid_results[i].agent = launched[i]
      /\ rpc = "responded" =>
           /\ response.agent_analyses = valid_results
           /\ response.final_summary.source_agents
                = [i \in 1..Len(valid_results) |-> valid_results[i].agent]

\* a response for three runs of which a later launched one finished first
C25_Witness ==
    /\ rpc = "responded" /\ response.kind = "response"
    /\ response.status = "ok" /\ overtaken
    /\ Len(launched) = 3
    /\ response.agent_analyses[1].agent = launched[1]
    /\ response.agent_analyses[3].agent = launched[3]

\* the categories whose run record a step writes
Written == {c \in Categories : run'[c] # run[c]}

\* a step taken while the category runs are in flight
RunStep ==
    (rpc = "gather" /\ rpc' = "gather") =>
       /\ Cardinality(Written) <= 1
       /\ \A c \in Written :
            /\ run[c].status = "running"
            /\ run'[c].status \in {"returned", "raised"}
            /\ run'[c].status = "returned" => run'[c].result.agent = c
       /\ valid_results' = valid_results /\ response' = response
       /\ categorized' = categorized /\ launched' = launched

\* the record of a finished run is not written again
FinishedStep ==
    \A c \in Categories :
       run[c].status \in {"returned", "raised"} => run'[c] = run[c]

ChunkTaskStep ==
    /\ (pc = "init" /\ pc' = "chunk_text") => state' = InitialState(content)
    /\ (pc = "map_wait" /\ pc' = "map_wait") =>
         /\ state' = state /\ llm_calls' = llm_calls
         /\ summaries' # summaries =>
              \E k \in 1..Len(summaries) :
                 /\ summaries[k] = NoSummary /\ summaries'[k] # NoSummary
                 /\ \A j \in 1..Len(summaries) \ {k} :
                      summaries'[j] = summaries[j]

OwnWorkflowState == [][ChunkTaskStep]_vars

-----------------------------------------------------------------------------
(* Claims about the aggregator's analyze() invocation (SpecAgent).          *)

\* the inference calls of the invocation
InferenceCalls == llm_calls.map + llm_calls.reduce

\* C27: the analyze() invocation by which aggregate_analyses obtains the
\* synthesis narrative issues exactly one inference call, for every list of
\* category results.
C27_OneCall ==
    (content \in CombinedContents /\ WorkflowReturned) => InferenceCalls = 1

\* what the code does: the combined block goes through the chunk, map and
\* reduce workflow, one call per chunk and one reduce call
SynthesisCalls ==
    (content \in CombinedContents /\ WorkflowReturned /\ ~result.has_error) =>
       /\ state.chunks # << >>
       /\ llm_calls.map = Len(state.chunks) /\ llm_calls.reduce = 1
       /\ InferenceCalls >= 2

\* C28: the content_too_short guard is unreachable for the contents the
\* orchestrator builds: every category input and every combined block has at
\* least MIN_CONTENT_LENGTH characters, no such invocation returns
\* content_too_short, and a category whose documents are all empty is
\* chunked and sent to the inference collaborator.
C28_GuardUnreachable ==
    content \in RunInputs \cup CombinedContents =>
       /\ content.len >= MIN_CONTENT_LENGTH
       /\ ~content_too_short(content)
       /\ result # NoResult => result.error # "content_too_short"
       /\ pc # "init" /\ result = NoResult => state # EmptyState
       /\ (content \in EmptyRunInputs /\ WorkflowReturned /\ ~result.has_error) =>
             /\ state.chunks # << >>
             /\ llm_calls.map = Len(state.chunks) /\ llm_calls.reduce = 1

C28_Witness ==
    /\ content \in EmptyRunInputs /\ content.len = FilePrefixLength
    /\ WorkflowReturned /\ ~result.has_error
    /\ Len(state.chunks) = 1 /\ llm_calls.map = 1

\* the synthesis of the empty result list took two inference calls
SynthesisOfNothing ==
    /\ content.len = CombinedHeadLength /\ WorkflowReturned
    /\ ~result.has_error /\ InferenceCalls = 2

-----------------------------------------------------------------------------
(* Claims about the negative signals of the scores (SpecScore).             *)

\* the phrases of negative_signals in the team, product and traction scores
NegativeSignals ==
    [team     |-> {"first-time", "inexperienced", "solo founder",
                   "no technical", "team risk"},
     product  |-> {"commodity", "no differentiation", "me too",
                   "easily copied", "no moat"},
     traction |-> {"no revenue", "no customers", "churn", "declining",
                   "no traction"}]

\* the text with one more occurrence of the phrase
with_occurrence(text, phrase) == text \o " " \o phrase

\* the text the scores of this state were computed from
ScoredText == Lower(narrative)

\* C29: one more occurrence of a negative phrase of the team, product or
\* traction dimension never makes that dimension's score higher.
C29_NegativeNeverRaises ==
    scores.kind = "scores" =>
       /\ \A p \in NegativeSignals.team :
            calculate_team_score(with_occurrence(ScoredText, p))
              <= scores.score.team
       /\ \A p \in NegativeSignals.traction :
            calculate_traction_score(with_occurrence(ScoredText, p))
              <= scores.score.traction
       /\ \A p \in NegativeSignals.product :
            calculate_product_score(with_occurrence(ScoredText, p))
              <= scores.score.product

\* what the code does: the team and traction phrases never raise their
\* score, and of the product phrases only "no moat" does, on a text without
\* "moat", where it matches the positive signal "moat" (+10) as well as the
\* negative one (-5)
NegativeSignalEffect ==
    scores.kind = "scores" =>
       /\ \A p \in NegativeSignals.team :
            calculate_team_score(with_occurrence(ScoredText, p))
              <= scores.score.team
       /\ \A p \in NegativeSignals.traction :
            calculate_traction_score(with_occurrence(ScoredText, p))
              <= scores.score.traction
       /\ \A p \in NegativeSignals.product \ {"no moat"} :
            calculate_product_score(with_occurrence(ScoredText, p))
              <= scores.score.product
       /\ LET after == with_occurrence(ScoredText, "no moat")
          IN  IF Contains(ScoredText, "moat")
              THEN calculate_product_score(after) <= scores.score.product
              ELSE /\ product_points(after) = product_points(ScoredText) + 5
                   /\ calculate_product_score(after) > scores.score.product

\* a scored narrative whose product score "no moat" raises
NoMoatRaises ==
    /\ scores.kind = "scores" /\ ~Contains(ScoredText, "moat")
    /\ calculate_product_score(with_occurrence(ScoredText, "no moat"))
         = scores.score.product + 5

-----------------------------------------------------------------------------
(* Claims about the response's search flag (SpecWeb).                       *)

\* the request returned the response of _analyze_files_internal
WebResponded == wpc = "responded" /\ web_response.status = "ok"

\* the web_content run ran and its searches obtained at least one result
ObtainedResults ==
    wstate.kind = "state" /\ SearchResultsOf(wstate.metadata) > 0

\* C30: the response's search_performed is true exactly when the
\* web_content run obtained at least one search result, and false when
\* there was no web_content run or no result.
C30_SearchPerformed ==
    WebResponded => (web_response.search_performed <=> ObtainedResults)

\* what the code does: no node of the agent stores web_results_count, the
\* key the orchestrator reads, so the flag is false in every response
SearchNeverReported ==
    /\ web_result.kind = "result" =>
         "web_results_count" \notin DOMAIN web_result.metadata
    /\ ~web_search_performed
    /\ web_response.kind = "response" => ~web_response.search_performed

\* a response whose run stored search results and whose flag is false
SearchUnreported ==
    /\ WebResponded /\ ObtainedResults
    /\ web_result.kind = "result" /\ web_result.agent = "web_content"
    /\ ~web_result.has_error
    /\ DictGet(web_result.metadata, "total_search_results", 0) > 0
    /\ ~web_response.search_performed

=============================================================================
